---- MODULE Spec2Model ----
(***************************************************************************)
(* Model of the componentize-qjs runtime (crates/runtime/src/lib.rs): the  *)
(* per-call value stack with its marshaling operations, the interpreter    *)
(* binding (initialize, export_start / export_call / export_finish,        *)
(* call_import) and the init entry point.                                  *)
(***************************************************************************)
EXTENDS Integers, Sequences, FiniteSets, TLC

(***************************************************************************)
(* Bounds of the model.                                                    *)
(***************************************************************************)
MaxLen == 2
MaxStack == 2
MaxDefer == 2
MaxInit == 3

(***************************************************************************)
(* Guest (JavaScript) values.  A value is a record whose field k names its *)
(* kind.  A string is the sequence of its characters, an array the         *)
(* sequence of its elements, an object a function from keys (character     *)
(* sequences) to values.  A number is held by its mathematical value.      *)
(***************************************************************************)
Undefined == [k |-> "undefined"]
Null == [k |-> "null"]
JsBool(b) == [k |-> "bool", b |-> b]
JsNum(n) == [k |-> "num", n |-> n]
\* the number 2^31 + above, for above in 0..2^31-1: the numbers of the u32
\* range that no i32 holds
JsWide(above) == [k |-> "num", above |-> above]
IsWide(v) == v.k = "num" /\ "above" \in DOMAIN v
JsStr(s) == [k |-> "str", s |-> s]
JsArr(e) == [k |-> "arr", e |-> e]
JsObj(f) == [k |-> "obj", f |-> f]

MaxI32 == 2147483647
MinI32 == -MaxI32 - 1

\* A host u32 is held as the integer of the same 32 bits read as an i32: x in
\* 0..2^31-1 stands for itself, x in -2^31..-1 stands for x + 2^32.
\* Rust `x as i32` for x: u32 keeps the bits, hence the integer held
U32AsI32(n) == n
\* Rust `n as u8`, `n as i8`, `n as u16`, `n as i16` for n: i32
AsU8(n) == n % 256
AsS8(n) == IF n % 256 >= 128 THEN (n % 256) - 256 ELSE n % 256
AsU16(n) == n % 65536
AsS16(n) == IF n % 65536 >= 32768 THEN (n % 65536) - 65536 ELSE n % 65536

\* Value::new_int / Value::new_number: both yield the JS number
NewInt(n) == JsNum(n)
NewNumber(n) == JsNum(n)
\* Value::new_number(n as f64) for n: u32: the number n stands for
NewNumberU32(n) == IF n < 0 THEN JsWide(n - MinI32) ELSE JsNum(n)

\* Property keys used by the marshaler
KeyTag == <<"t", "a", "g">>
KeyVal == <<"v", "a", "l">>
StrOk == <<"o", "k">>
StrErr == <<"e", "r", "r">>

(***************************************************************************)
(* heck: to_lower_camel_case / to_upper_camel_case on a kebab-case name.   *)
(* A name is the sequence of its words, a word a sequence of characters.   *)
(***************************************************************************)
LowerChars == <<"a", "b", "c", "d", "e", "f", "g", "h", "i", "j", "k", "l", "m",
                "n", "o", "p", "q", "r", "s", "t", "u", "v", "w", "x", "y", "z">>
UpperChars == <<"A", "B", "C", "D", "E", "F", "G", "H", "I", "J", "K", "L", "M",
                "N", "O", "P", "Q", "R", "S", "T", "U", "V", "W", "X", "Y", "Z">>

ToUpperChar(c) ==
  IF \E i \in 1..26 : LowerChars[i] = c
  THEN UpperChars[CHOOSE i \in 1..26 : LowerChars[i] = c]
  ELSE c

ToLowerChar(c) ==
  IF \E i \in 1..26 : UpperChars[i] = c
  THEN LowerChars[CHOOSE i \in 1..26 : UpperChars[i] = c]
  ELSE c

LowerWord(w) == [i \in 1..Len(w) |-> ToLowerChar(w[i])]
CapWord(w) == [i \in 1..Len(w) |-> IF i = 1 THEN ToUpperChar(w[i]) ELSE ToLowerChar(w[i])]

RECURSIVE JoinWords(_)
JoinWords(ws) == IF ws = <<>> THEN <<>> ELSE Head(ws) \o JoinWords(Tail(ws))

to_upper_camel_case(name) == JoinWords([i \in 1..Len(name) |-> CapWord(name[i])])
to_lower_camel_case(name) ==
  JoinWords([i \in 1..Len(name) |-> IF i = 1 THEN LowerWord(name[i]) ELSE CapWord(name[i])])

(***************************************************************************)
(* QjsCallContext and the outcome of an operation on it.                   *)
(***************************************************************************)
QjsCallContext == [stack |-> <<>>, temp_strings |-> <<>>, deferred_deallocs |-> <<>>]

NoPanic == "none"
Underflow == "stack underflow"

Ret(cx, ret) == [cx |-> cx, ret |-> ret, panic |-> NoPanic]
Fatal(cx, msg) == [cx |-> cx, ret |-> 0, panic |-> msg]

Depth(cx) == Len(cx.stack)
Top(cx) == cx.stack[Len(cx.stack)]
StackPop(cx) == [cx EXCEPT !.stack = SubSeq(cx.stack, 1, Len(cx.stack) - 1)]
StackPush(cx, v) == [cx EXCEPT !.stack = Append(cx.stack, v)]

Reverse(s) == [i \in 1..Len(s) |-> s[Len(s) + 1 - i]]

\* a defer_deallocate that registers the allocation twice
defer_deallocate_twice(cx, ptr, layout) ==
  [cx EXCEPT !.deferred_deallocs = Append(Append(cx.deferred_deallocs, <<ptr, layout>>),
                                          <<ptr, layout>>)]

defer_deallocate(cx, ptr, layout) ==
  [cx EXCEPT !.deferred_deallocs = Append(cx.deferred_deallocs, <<ptr, layout>>)]

\* rquickjs FromJs for the integer types: a number inside the target range
IsI32(v) == v.k = "num" /\ ~IsWide(v) /\ v.n >= MinI32 /\ v.n <= MaxI32
IsUnsigned(v) == v.k = "num" /\ (IsWide(v) \/ v.n >= 0)
\* the u32 a number accepted by IsUnsigned converts to
ToU32(v) == IF IsWide(v) THEN v.above + MinI32 ELSE v.n

\* the shape shared by every scalar pop: pop, restore, convert or panic
PopScalar(cx, Accepts(_), Convert(_), msg) ==
  IF Depth(cx) = 0 THEN Fatal(cx, Underflow)
  ELSE IF Accepts(Top(cx)) THEN Ret(StackPop(cx), Convert(Top(cx)))
       ELSE Fatal(StackPop(cx), msg)

ExpectedNumber == "expected number"

pop_bool(cx) == PopScalar(cx, LAMBDA v : v.k = "bool", LAMBDA v : v.b, "expected bool")
\* a pop_u8 that takes the numbers of the u8 range alone
pop_u8_checked(cx) ==
  PopScalar(cx, LAMBDA v : IsI32(v) /\ v.n >= 0 /\ v.n <= 255, LAMBDA v : v.n, ExpectedNumber)

pop_u8(cx) == PopScalar(cx, IsI32, LAMBDA v : AsU8(v.n), ExpectedNumber)
pop_s8(cx) == PopScalar(cx, IsI32, LAMBDA v : AsS8(v.n), ExpectedNumber)
pop_u16(cx) == PopScalar(cx, IsI32, LAMBDA v : AsU16(v.n), ExpectedNumber)
pop_s16(cx) == PopScalar(cx, IsI32, LAMBDA v : AsS16(v.n), ExpectedNumber)
pop_u32(cx) == PopScalar(cx, IsUnsigned, ToU32, ExpectedNumber)
pop_s32(cx) == PopScalar(cx, IsI32, LAMBDA v : v.n, ExpectedNumber)
pop_u64(cx) == PopScalar(cx, IsUnsigned, LAMBDA v : v.n, ExpectedNumber)
pop_s64(cx) == PopScalar(cx, LAMBDA v : v.k = "num", LAMBDA v : v.n, ExpectedNumber)
pop_f32(cx) == PopScalar(cx, LAMBDA v : v.k = "num", LAMBDA v : v.n, ExpectedNumber)
pop_f64(cx) == PopScalar(cx, LAMBDA v : v.k = "num", LAMBDA v : v.n, ExpectedNumber)
pop_enum(cx) == PopScalar(cx, IsUnsigned, ToU32, ExpectedNumber)
pop_flags(cx) == PopScalar(cx, IsUnsigned, ToU32, ExpectedNumber)
pop_borrow(cx) == PopScalar(cx, IsUnsigned, ToU32, ExpectedNumber)
pop_own(cx) == PopScalar(cx, IsUnsigned, ToU32, ExpectedNumber)
pop_future(cx) == PopScalar(cx, IsUnsigned, ToU32, ExpectedNumber)
pop_stream(cx) == PopScalar(cx, IsUnsigned, ToU32, ExpectedNumber)

pop_char(cx) ==
  IF Depth(cx) = 0 THEN Fatal(cx, Underflow)
  ELSE IF Top(cx).k # "str" THEN Fatal(StackPop(cx), "expected string")
  ELSE IF Top(cx).s = <<>> THEN Fatal(StackPop(cx), "expected non-empty string")
  ELSE Ret(StackPop(cx), Head(Top(cx).s))

pop_string(cx) ==
  IF Depth(cx) = 0 THEN Fatal(cx, Underflow)
  ELSE IF Top(cx).k # "str" THEN Fatal(StackPop(cx), "expected string")
  ELSE LET s == Top(cx).s
           c == StackPop(cx)
       IN Ret([c EXCEPT !.temp_strings = Append(c.temp_strings, s)], s)

(***************************************************************************)
(* WIT types as the marshaler sees them.  NoType stands for an absent      *)
(* payload type (ty.ok() / ty.err() / a case's type being None).           *)
(***************************************************************************)
NoType == [t |-> "none"]
Scalar(name) == [t |-> name]
ListOf(ty) == [t |-> "list", of |-> ty]
OptionOf(ty) == [t |-> "option", of |-> ty]
TupleOf(tys) == [t |-> "tuple", types |-> tys]
RecordOf(fields) == [t |-> "record", fields |-> fields]
ResultOf(ok, err) == [t |-> "result", ok |-> ok, err |-> err]
VariantOf(cases) == [t |-> "variant", cases |-> cases]
Field(name, ty) == [name |-> name, ty |-> ty]

\* Value::as_object: arrays are objects too
IsObject(v) == v.k = "obj" \/ v.k = "arr"
\* Object::get of a property: undefined when the object does not have it
GetProp(v, key) ==
  IF v.k = "obj" /\ key \in DOMAIN v.f THEN v.f[key] ELSE Undefined
\* Array::get of an index: undefined past the end
GetIndex(v, i) == IF i <= Len(v.e) THEN v.e[i] ELSE Undefined

\* a pop_list that pushes the elements in index order
pop_list_forward(cx) ==
  IF Depth(cx) = 0 THEN Fatal(cx, Underflow)
  ELSE IF Top(cx).k # "arr" THEN Fatal(StackPop(cx), "expected array")
  ELSE LET arr == Top(cx).e
           c == StackPop(cx)
       IN Ret([c EXCEPT !.stack = c.stack \o arr], Len(arr))

pop_list(cx) ==
  IF Depth(cx) = 0 THEN Fatal(cx, Underflow)
  ELSE IF Top(cx).k # "arr" THEN Fatal(StackPop(cx), "expected array")
  ELSE LET arr == Top(cx).e
           c == StackPop(cx)
       IN Ret([c EXCEPT !.stack = c.stack \o Reverse(arr)], Len(arr))

\* a pop_option that takes null alone for none
pop_option_null_only(cx) ==
  IF Depth(cx) = 0 THEN Fatal(cx, Underflow)
  ELSE IF Top(cx).k = "null" THEN Ret(StackPop(cx), 0)
  ELSE Ret(StackPush(StackPop(cx), Top(cx)), 1)

pop_option(cx) ==
  IF Depth(cx) = 0 THEN Fatal(cx, Underflow)
  ELSE IF Top(cx).k = "null" \/ Top(cx).k = "undefined" THEN Ret(StackPop(cx), 0)
  ELSE Ret(StackPush(StackPop(cx), Top(cx)), 1)

\* a pop_result that returns 1 for the tag "err" alone
pop_result_err_only(cx) ==
  IF Depth(cx) = 0 THEN Fatal(cx, Underflow)
  ELSE IF ~IsObject(Top(cx)) THEN Fatal(StackPop(cx), "expected object")
  ELSE LET tag == GetProp(Top(cx), KeyTag)
           inner == GetProp(Top(cx), KeyVal)
       IN IF tag.k # "str" THEN Fatal(StackPop(cx), "expected tag")
          ELSE Ret(StackPush(StackPop(cx), inner), IF tag.s = StrErr THEN 1 ELSE 0)

pop_result(cx) ==
  IF Depth(cx) = 0 THEN Fatal(cx, Underflow)
  ELSE IF ~IsObject(Top(cx)) THEN Fatal(StackPop(cx), "expected object")
  ELSE LET tag == GetProp(Top(cx), KeyTag)
           inner == GetProp(Top(cx), KeyVal)
       IN IF tag.k # "str" THEN Fatal(StackPop(cx), "expected tag")
          ELSE Ret(StackPush(StackPop(cx), inner), IF tag.s = StrOk THEN 0 ELSE 1)

pop_variant(cx) ==
  IF Depth(cx) = 0 THEN Fatal(cx, Underflow)
  ELSE IF ~IsObject(Top(cx)) THEN Fatal(StackPop(cx), "expected object")
  ELSE LET tag == GetProp(Top(cx), KeyTag)
           inner == GetProp(Top(cx), KeyVal)
       IN IF ~IsUnsigned(tag) THEN Fatal(StackPop(cx), "expected tag")
          ELSE Ret(StackPush(StackPop(cx), inner), tag.n)

pop_tuple(cx, ty) ==
  IF Depth(cx) = 0 THEN Fatal(cx, Underflow)
  ELSE IF Top(cx).k # "arr" THEN Fatal(StackPop(cx), "expected array")
  ELSE LET n == Len(ty.types)
           c == StackPop(cx)
       IN Ret([c EXCEPT !.stack =
                 c.stack \o [j \in 1..n |-> GetIndex(Top(cx), n + 1 - j)]], 0)

\* a pop_record that pushes the fields in declaration order
pop_record_forward(cx, ty) ==
  IF Depth(cx) = 0 THEN Fatal(cx, Underflow)
  ELSE IF ~IsObject(Top(cx)) THEN Fatal(StackPop(cx), "expected object")
  ELSE LET n == Len(ty.fields)
           c == StackPop(cx)
       IN Ret([c EXCEPT !.stack =
                 c.stack \o [j \in 1..n |->
                    GetProp(Top(cx), to_lower_camel_case(ty.fields[j].name))]], 0)

pop_record(cx, ty) ==
  IF Depth(cx) = 0 THEN Fatal(cx, Underflow)
  ELSE IF ~IsObject(Top(cx)) THEN Fatal(StackPop(cx), "expected object")
  ELSE LET n == Len(ty.fields)
           c == StackPop(cx)
       IN Ret([c EXCEPT !.stack =
                 c.stack \o [j \in 1..n |->
                    GetProp(Top(cx), to_lower_camel_case(ty.fields[n + 1 - j].name))]], 0)

(***************************************************************************)
(* Push operations.                                                        *)
(***************************************************************************)
push_bool(cx, val) == Ret(StackPush(cx, JsBool(val)), 0)
push_u8(cx, val) == Ret(StackPush(cx, NewInt(val)), 0)
push_s8(cx, val) == Ret(StackPush(cx, NewInt(val)), 0)
push_u16(cx, val) == Ret(StackPush(cx, NewInt(val)), 0)
push_s16(cx, val) == Ret(StackPush(cx, NewInt(val)), 0)
push_u32(cx, val) == Ret(StackPush(cx, NewNumberU32(val)), 0)
push_s32(cx, val) == Ret(StackPush(cx, NewInt(val)), 0)
push_u64(cx, val) == Ret(StackPush(cx, NewNumber(val)), 0)
push_s64(cx, val) == Ret(StackPush(cx, NewNumber(val)), 0)
push_f32(cx, val) == Ret(StackPush(cx, NewNumber(val)), 0)
push_f64(cx, val) == Ret(StackPush(cx, NewNumber(val)), 0)
push_char(cx, val) == Ret(StackPush(cx, JsStr(<<val>>)), 0)
push_string(cx, val) == Ret(StackPush(cx, JsStr(val)), 0)
push_enum(cx, val) == Ret(StackPush(cx, NewInt(U32AsI32(val))), 0)
push_flags(cx, val) == Ret(StackPush(cx, NewNumberU32(val)), 0)
push_borrow(cx, handle) == Ret(StackPush(cx, NewNumberU32(handle)), 0)
push_own(cx, handle) == Ret(StackPush(cx, NewNumberU32(handle)), 0)
push_future(cx, handle) == Ret(StackPush(cx, NewInt(U32AsI32(handle))), 0)
push_stream(cx, handle) == Ret(StackPush(cx, NewInt(U32AsI32(handle))), 0)

push_list(cx) == Ret(StackPush(cx, JsArr(<<>>)), 0)

\* list_append putting the element in front of the array
list_append_front(cx) ==
  IF Depth(cx) = 0 THEN Fatal(cx, Underflow)
  ELSE LET elem == Top(cx)
           c == StackPop(cx)
       IN IF Depth(c) = 0 THEN Fatal(c, Underflow)
          ELSE IF Top(c).k # "arr" THEN Fatal(c, "expected array")
          ELSE Ret(StackPush(StackPop(c), JsArr(<<elem>> \o Top(c).e)), 0)


list_append(cx) ==
  IF Depth(cx) = 0 THEN Fatal(cx, Underflow)
  ELSE LET elem == Top(cx)
           c == StackPop(cx)
       IN IF Depth(c) = 0 THEN Fatal(c, Underflow)
          ELSE IF Top(c).k # "arr" THEN Fatal(c, "expected array")
          ELSE Ret(StackPush(StackPop(c), JsArr(Append(Top(c).e, elem))), 0)

push_option(cx, is_some) ==
  IF ~is_some THEN Ret(StackPush(cx, Null), 0) ELSE Ret(cx, 0)

\* {tag} or {tag, val}: val is set only when a payload was popped
TagObject(tag, hasVal, val) ==
  JsObj([key \in (IF hasVal THEN {KeyTag, KeyVal} ELSE {KeyTag}) |->
           IF key = KeyTag THEN tag ELSE val])

\* a push_result that takes the payload whatever the type of the arm says
push_result_always_pops(cx, ty, is_err) ==
  LET popped == Depth(cx) > 0
      c == IF popped THEN StackPop(cx) ELSE cx
      tag == JsStr(IF is_err THEN StrErr ELSE StrOk)
  IN Ret(StackPush(c, TagObject(tag, popped, IF popped THEN Top(cx) ELSE Undefined)), 0)

push_result(cx, ty, is_err) ==
  LET has_payload == IF is_err THEN ty.err # NoType ELSE ty.ok # NoType
      popped == has_payload /\ Depth(cx) > 0
      c == IF popped THEN StackPop(cx) ELSE cx
      tag == JsStr(IF is_err THEN StrErr ELSE StrOk)
  IN Ret(StackPush(c, TagObject(tag, popped, IF popped THEN Top(cx) ELSE Undefined)), 0)

push_variant(cx, ty, tag) ==
  LET has_payload == IF tag + 1 <= Len(ty.cases) THEN ty.cases[tag + 1].ty # NoType ELSE FALSE
      popped == has_payload /\ Depth(cx) > 0
      c == IF popped THEN StackPop(cx) ELSE cx
  IN Ret(StackPush(c, TagObject(NewNumber(tag), popped, IF popped THEN Top(cx) ELSE Undefined)), 0)

push_tuple(cx, ty) ==
  LET len == Len(ty.types)
  IN IF Depth(cx) < len THEN Fatal([cx EXCEPT !.stack = <<>>], Underflow)
     ELSE LET elems == [j \in 1..len |-> cx.stack[Depth(cx) + 1 - j]]
              c == [cx EXCEPT !.stack = SubSeq(cx.stack, 1, Depth(cx) - len)]
          IN Ret(StackPush(c, JsArr(Reverse(elems))), 0)

push_record(cx, ty) ==
  LET len == Len(ty.fields)
  IN IF Depth(cx) < len THEN Fatal([cx EXCEPT !.stack = <<>>], Underflow)
     ELSE LET vals == Reverse([j \in 1..len |-> cx.stack[Depth(cx) + 1 - j]])
              key(i) == to_lower_camel_case(ty.fields[i].name)
              c == [cx EXCEPT !.stack = SubSeq(cx.stack, 1, Depth(cx) - len)]
              last(k) == CHOOSE i \in 1..len :
                           key(i) = k /\ \A j \in 1..len : key(j) = k => j <= i
          IN Ret(StackPush(c, JsObj([k \in {key(i) : i \in 1..len} |-> vals[last(k)]])), 0)

(***************************************************************************)
(* The generated adapter's use of the operations above (spec section 4.D): *)
(* Lower pushes a host value of a WIT type, Lift pops one.  Host values:   *)
(* integers, booleans, characters, sequences of characters (string),       *)
(* sequences (list, tuple, record fields in declaration order), <<>> or    *)
(* <<x>> (option: none / some x), [err, val] (result) and [tag, val]       *)
(* (variant), val being <<>> for an arm without payload.                   *)
(***************************************************************************)
AndThen(r, F(_)) == IF r.panic # NoPanic THEN r ELSE F(r.cx)

ArmType(ty, disc) ==
  IF ty.t = "result" THEN (IF disc = 0 THEN ty.ok ELSE ty.err)
  ELSE IF disc + 1 <= Len(ty.cases) THEN ty.cases[disc + 1].ty ELSE NoType

ElemTypes(ty) ==
  IF ty.t = "tuple" THEN ty.types
  ELSE [i \in 1..Len(ty.fields) |-> ty.fields[i].ty]

RECURSIVE Lower(_, _, _)
RECURSIVE LowerEach(_, _, _, _)
RECURSIVE LowerAppend(_, _, _, _)

LowerScalar(ty, v, cx) ==
  CASE ty.t = "bool" -> push_bool(cx, v)
    [] ty.t = "u8" -> push_u8(cx, v)
    [] ty.t = "s8" -> push_s8(cx, v)
    [] ty.t = "u16" -> push_u16(cx, v)
    [] ty.t = "s16" -> push_s16(cx, v)
    [] ty.t = "u32" -> push_u32(cx, v)
    [] ty.t = "s32" -> push_s32(cx, v)
    [] ty.t = "u64" -> push_u64(cx, v)
    [] ty.t = "s64" -> push_s64(cx, v)
    [] ty.t = "f32" -> push_f32(cx, v)
    [] ty.t = "f64" -> push_f64(cx, v)
    [] ty.t = "char" -> push_char(cx, v)
    [] ty.t = "string" -> push_string(cx, v)
    [] ty.t = "enum" -> push_enum(cx, v)
    [] ty.t = "flags" -> push_flags(cx, v)
    [] ty.t = "own" -> push_own(cx, v)
    [] ty.t = "borrow" -> push_borrow(cx, v)
    [] ty.t = "future" -> push_future(cx, v)
    [] ty.t = "stream" -> push_stream(cx, v)

\* push the values vs[i..] of types tys[i..] in order
LowerEach(tys, vs, i, cx) ==
  IF i > Len(tys) THEN Ret(cx, 0)
  ELSE AndThen(Lower(tys[i], vs[i], cx), LAMBDA c : LowerEach(tys, vs, i + 1, c))

\* for each element from i on: push it, then list_append
LowerAppend(ty, vs, i, cx) ==
  IF i > Len(vs) THEN Ret(cx, 0)
  ELSE AndThen(Lower(ty, vs[i], cx),
         LAMBDA c : AndThen(list_append(c), LAMBDA d : LowerAppend(ty, vs, i + 1, d)))

Lower(ty, v, cx) ==
  CASE ty.t = "list" ->
         AndThen(push_list(cx), LAMBDA c : LowerAppend(ty.of, v, 1, c))
    [] ty.t = "tuple" ->
         AndThen(LowerEach(ty.types, v, 1, cx), LAMBDA c : push_tuple(c, ty))
    [] ty.t = "record" ->
         AndThen(LowerEach(ElemTypes(ty), v, 1, cx), LAMBDA c : push_record(c, ty))
    [] ty.t = "option" ->
         IF v = <<>> THEN push_option(cx, FALSE)
         ELSE AndThen(Lower(ty.of, v[1], cx), LAMBDA c : push_option(c, TRUE))
    [] ty.t = "result" ->
         IF ArmType(ty, IF v.err THEN 1 ELSE 0) = NoType THEN push_result(cx, ty, v.err)
         ELSE AndThen(Lower(ArmType(ty, IF v.err THEN 1 ELSE 0), v.val[1], cx),
                      LAMBDA c : push_result(c, ty, v.err))
    [] ty.t = "variant" ->
         IF ArmType(ty, v.tag) = NoType THEN push_variant(cx, ty, v.tag)
         ELSE AndThen(Lower(ArmType(ty, v.tag), v.val[1], cx),
                      LAMBDA c : push_variant(c, ty, v.tag))
    [] OTHER -> LowerScalar(ty, v, cx)

RECURSIVE Lift(_, _)
RECURSIVE LiftEach(_, _, _, _)

LiftScalar(ty, cx) ==
  CASE ty.t = "bool" -> pop_bool(cx)
    [] ty.t = "u8" -> pop_u8(cx)
    [] ty.t = "s8" -> pop_s8(cx)
    [] ty.t = "u16" -> pop_u16(cx)
    [] ty.t = "s16" -> pop_s16(cx)
    [] ty.t = "u32" -> pop_u32(cx)
    [] ty.t = "s32" -> pop_s32(cx)
    [] ty.t = "u64" -> pop_u64(cx)
    [] ty.t = "s64" -> pop_s64(cx)
    [] ty.t = "f32" -> pop_f32(cx)
    [] ty.t = "f64" -> pop_f64(cx)
    [] ty.t = "char" -> pop_char(cx)
    [] ty.t = "string" -> pop_string(cx)
    [] ty.t = "enum" -> pop_enum(cx)
    [] ty.t = "flags" -> pop_flags(cx)
    [] ty.t = "own" -> pop_own(cx)
    [] ty.t = "borrow" -> pop_borrow(cx)
    [] ty.t = "future" -> pop_future(cx)
    [] ty.t = "stream" -> pop_stream(cx)

\* pop the values of types tys[i..] in order, after the values acc
LiftEach(tys, i, acc, cx) ==
  IF i > Len(tys) THEN Ret(cx, acc)
  ELSE LET r == Lift(tys[i], cx)
       IN IF r.panic # NoPanic THEN r
          ELSE LiftEach(tys, i + 1, Append(acc, r.ret), r.cx)

\* the payload of the arm selected by a popped discriminant
LiftArm(arm, cx) ==
  IF arm = NoType THEN Ret(cx, <<>>)
  ELSE LET r == Lift(arm, cx)
       IN IF r.panic # NoPanic THEN r ELSE Ret(r.cx, <<r.ret>>)

Lift(ty, cx) ==
  CASE ty.t = "list" ->
         LET r == pop_list(cx)
         IN IF r.panic # NoPanic THEN r
            ELSE LiftEach([i \in 1..r.ret |-> ty.of], 1, <<>>, r.cx)
    [] ty.t = "tuple" ->
         AndThen(pop_tuple(cx, ty), LAMBDA c : LiftEach(ty.types, 1, <<>>, c))
    [] ty.t = "record" ->
         AndThen(pop_record(cx, ty), LAMBDA c : LiftEach(ElemTypes(ty), 1, <<>>, c))
    [] ty.t = "option" ->
         LET r == pop_option(cx)
         IN IF r.panic # NoPanic THEN r
            ELSE IF r.ret = 0 THEN Ret(r.cx, <<>>)
            ELSE LiftArm(ty.of, r.cx)
    [] ty.t = "result" ->
         LET r == pop_result(cx)
             p == LiftArm(ArmType(ty, r.ret), r.cx)
         IN IF r.panic # NoPanic THEN r
            ELSE IF p.panic # NoPanic THEN p
            ELSE Ret(p.cx, [err |-> r.ret # 0, val |-> p.ret])
    [] ty.t = "variant" ->
         LET r == pop_variant(cx)
             p == LiftArm(ArmType(ty, r.ret), r.cx)
         IN IF r.panic # NoPanic THEN r
            ELSE IF p.panic # NoPanic THEN p
            ELSE Ret(p.cx, [tag |-> r.ret, val |-> p.ret])
    [] OTHER -> LiftScalar(ty, cx)

(***************************************************************************)
(* The WIT types and host values the marshaling checks range over.         *)
(***************************************************************************)
ShapeCases == <<Field(<<<<"c", "i", "r", "c", "l", "e">>>>, Scalar("u32")), Field(<<<<"n", "o", "n", "e">>>>, NoType)>>
PointFields ==
  <<Field(<<<<"f", "i", "r", "s", "t">>, <<"n", "a", "m", "e">>>>, Scalar("u32")),
    Field(<<<<"o", "k">>>>, Scalar("bool"))>>

WitTypes ==
  << Scalar("bool"), Scalar("u8"), Scalar("s8"), Scalar("u16"), Scalar("s16"),
     Scalar("u32"), Scalar("s32"), Scalar("u64"), Scalar("s64"), Scalar("f32"),
     Scalar("f64"), Scalar("char"), Scalar("string"), Scalar("enum"), Scalar("flags"),
     Scalar("own"), Scalar("borrow"), Scalar("future"), Scalar("stream"),
     ListOf(Scalar("u32")), ListOf(ListOf(Scalar("u32"))),
     TupleOf(<<Scalar("u32"), Scalar("bool")>>), TupleOf(<<>>),
     RecordOf(PointFields),
     OptionOf(Scalar("u32")), OptionOf(Scalar("string")),
     ResultOf(Scalar("u32"), Scalar("string")), ResultOf(NoType, Scalar("string")),
     ResultOf(NoType, NoType),
     VariantOf(ShapeCases),
     OptionOf(OptionOf(Scalar("u32"))) >>

RECURSIVE Values(_)
RECURSIVE Product(_, _)

ScalarValues(ty) ==
  CASE ty.t = "bool" -> BOOLEAN
    [] ty.t = "u8" -> {0, 255}
    [] ty.t = "s8" -> {-128, 127}
    [] ty.t = "u16" -> {0, 65535}
    [] ty.t = "s16" -> {-32768, 32767}
    [] ty.t = "u32" -> {0, 7, MaxI32}
    [] ty.t = "s32" -> {MinI32, -1, MaxI32}
    [] ty.t = "u64" -> {0, 7}
    [] ty.t = "s64" -> {-7, 7}
    [] ty.t = "f32" -> {-2, 3}
    [] ty.t = "f64" -> {-2, 3}
    [] ty.t = "char" -> {"a", "Z"}
    [] ty.t = "string" -> {<<>>, <<"h", "i">>}
    [] ty.t = "enum" -> 0..2
    [] ty.t = "flags" -> 0..7
    [] OTHER -> {0, 5}

Payloads(ty) == IF ty = NoType THEN {<<>>} ELSE {<<x>> : x \in Values(ty)}

Product(tys, i) ==
  IF i > Len(tys) THEN {<<>>}
  ELSE {<<x>> \o rest : x \in Values(tys[i]), rest \in Product(tys, i + 1)}

Values(ty) ==
  CASE ty.t = "list" -> UNION {[1..n -> Values(ty.of)] : n \in 0..MaxLen}
    [] ty.t = "tuple" -> Product(ty.types, 1)
    [] ty.t = "record" -> Product(ElemTypes(ty), 1)
    [] ty.t = "option" -> {<<>>} \cup Payloads(ty.of)
    [] ty.t = "result" ->
         {[err |-> FALSE, val |-> p] : p \in Payloads(ty.ok)}
         \cup {[err |-> TRUE, val |-> p] : p \in Payloads(ty.err)}
    [] ty.t = "variant" ->
         UNION {{[tag |-> i - 1, val |-> p] : p \in Payloads(ty.cases[i].ty)} :
                  i \in 1..Len(ty.cases)}
    [] OTHER -> ScalarValues(ty)

\* the values a round trip starts from: those of the type and, for a type
\* that carries a u32, the values 2^31 and 2^32-1
WideTypes == {"u32", "flags", "own", "borrow", "future", "stream"}
TopValues(ty) ==
  IF ty.t \in WideTypes THEN ScalarValues(ty) \cup {MinI32, -1}
  ELSE Values(ty)

\* what the host's discriminant of an option / result / variant value is
Discriminant(t, v) ==
  CASE t.t = "option" -> (IF v = <<>> THEN 0 ELSE 1)
    [] t.t = "result" -> (IF v.err THEN 1 ELSE 0)
    [] t.t = "variant" -> v.tag

HasDiscriminant(t) == t.t \in {"option", "result", "variant"}

\* values that stand on the stack below the ones a check works on
BaseStacks == {<<>>, <<JsBool(TRUE)>>}

\* marshaling of one call context: the context, the value under test, the
\* outcome of the last operation
VARIABLES ty, val, base, cx, phase, out, disc, op, steps

mvars == <<ty, val, base, cx, phase, out, disc, op, steps>>

\* the runtime singletons, the calls in flight and the allocator's record
VARIABLES WIT, globals, registerCount, initializeCalls, initializeArg,
          JS_EVALUATED, evalCount, initCalls, initResults, initLog,
          frames, nextCx, deferLog, freed, fatal, guestGot

\* the cached engine scope: CACHED_CTX is <<>> for None and <<ptr>> for
\* Some(ptr); engineScope counts the holders of the engine scope; entrants
\* are the with_ctx calls that have not returned yet, outermost first
VARIABLES CACHED_CTX, engineScope, entrants, ctxCalls

cvars == <<CACHED_CTX, engineScope, entrants, ctxCalls>>

\* the build on the host: componentize's options, what the host environment
\* does, the step reached, the component so far, the value returned, and
\* which steps were executed; and the command line run around it
VARIABLES opts, env, stage, component, buildResult, built, cli

bvars == <<opts, env, stage, component, buildResult, built, cli>>

\* the export calls made one after the other on one instance
VARIABLES repeat

xvars == <<cvars, bvars, repeat>>

svars == <<WIT, globals, registerCount, initializeCalls, initializeArg,
           JS_EVALUATED, evalCount, initCalls, initResults, initLog,
           frames, nextCx, deferLog, freed, fatal, guestGot>>

rvars == <<svars, xvars>>

\* no with_ctx call is running
CtxIdle ==
  /\ CACHED_CTX = <<>>
  /\ engineScope = 0
  /\ entrants = <<>>
  /\ ctxCalls = 0

\* no command line is running
NoCli == <<>>

NoBuild == [snapshotRan |-> FALSE, stubBuilt |-> FALSE, composed |-> FALSE, ran |-> <<>>]

\* no build is running
BuildIdle ==
  /\ opts = <<>>
  /\ env = <<>>
  /\ stage = "none"
  /\ component = [kind |-> "none", imports |-> {}, exports |-> {}, snapshot |-> FALSE]
  /\ buildResult = <<>>
  /\ built = NoBuild
  /\ cli = NoCli

\* no call was made
NoRepeat == <<>>

XIdle == CtxIdle /\ BuildIdle /\ repeat = NoRepeat

vars == <<mvars, rvars>>

\* the state of the runtime right after the module is loaded
RuntimeInit ==
  /\ WIT = 0
  /\ globals = <<>>
  /\ registerCount = 0
  /\ initializeCalls = 0
  /\ initializeArg = 0
  /\ JS_EVALUATED = FALSE
  /\ evalCount = 0
  /\ initCalls = 0
  /\ initResults = <<>>
  /\ initLog = <<>>
  /\ frames = <<>>
  /\ nextCx = 0
  /\ deferLog = <<>>
  /\ freed = <<>>
  /\ fatal = "none"
  /\ guestGot = [k |-> "undefined"]
  /\ XIdle

NoOut == [ret |-> 0, panic |-> "unset"]
NoOp == [name |-> "none", need |-> 0, before |-> 0]

(***************************************************************************)
(* Round trip of one host value through the stack.                         *)
(***************************************************************************)
InitRT ==
  /\ ty \in {WitTypes[i] : i \in 1..Len(WitTypes)}
  /\ val \in TopValues(ty)
  /\ base \in BaseStacks
  /\ cx = [QjsCallContext EXCEPT !.stack = base]
  /\ phase = "start"
  /\ out = NoOut
  /\ disc = -1
  /\ op = NoOp
  /\ steps = 0
  /\ RuntimeInit

\* the adapter lowers the value: the push sequence for its type
RtLower ==
  /\ phase = "start"
  /\ LET r == Lower(ty, val, cx)
     IN /\ cx' = r.cx
        /\ out' = [ret |-> 0, panic |-> r.panic]
  /\ phase' = "pushed"
  /\ UNCHANGED <<ty, val, base, disc, op, steps, rvars>>

\* the adapter lifts the value back: the pop sequence for its type
RtLift ==
  /\ phase = "pushed"
  /\ out.panic = NoPanic
  /\ LET r == Lift(ty, cx)
     IN /\ cx' = r.cx
        /\ out' = [ret |-> r.ret, panic |-> r.panic]
  /\ phase' = "popped"
  /\ UNCHANGED <<ty, val, base, disc, op, steps, rvars>>

\* the adapter reads only the discriminant of the pushed value
RtPopDiscriminant ==
  /\ phase = "pushed"
  /\ out.panic = NoPanic
  /\ HasDiscriminant(ty)
  /\ LET r == CASE ty.t = "option" -> pop_option(cx)
                [] ty.t = "result" -> pop_result(cx)
                [] ty.t = "variant" -> pop_variant(cx)
     IN /\ cx' = r.cx
        /\ out' = [ret |-> 0, panic |-> r.panic]
        /\ disc' = r.ret
  /\ phase' = "disc"
  /\ UNCHANGED <<ty, val, base, op, steps, rvars>>

NextRT == RtLower \/ RtLift \/ RtPopDiscriminant

SpecRT == InitRT /\ [][NextRT]_vars

\* C1: for every WIT type T and every host value v of T, pushing v and then
\* popping a T yields v (no panic, the popped value equals v).
C1_RoundTrip ==
  phase = "popped" => (out.panic = NoPanic /\ out.ret = val)

\* C2: for every option, result and variant value the discriminant returned by
\* pop_option / pop_result / pop_variant equals the one given to the push.
C2_DiscriminantRoundTrip ==
  phase = "disc" => (out.panic = NoPanic /\ disc = Discriminant(ty, val))

\* the guest value the adapter's push sequence for v leaves on top of the stack
Guest(t, v) == Top(Lower(t, v, QjsCallContext).cx)

\* C6: a list built by push_list and k times (push element, list_append), and
\* a tuple built by push_tuple after its n elements were pushed, hold the i-th
\* element pushed at index i, and the array alone stands on the stack in place
\* of the elements.
C6_ArrayIndexOrder ==
  (phase = "pushed" /\ ty.t \in {"list", "tuple"}) =>
     /\ out.panic = NoPanic
     /\ cx.stack = Append(base, Top(cx))
     /\ Top(cx).k = "arr"
     /\ Len(Top(cx).e) = Len(val)
     /\ \A i \in 1..Len(val) :
          Top(cx).e[i] = Guest(IF ty.t = "list" THEN ty.of ELSE ty.types[i], val[i])

C6_Witness ==
  /\ phase = "pushed"
  /\ ty = ListOf(Scalar("u32"))
  /\ Len(val) = MaxLen
  /\ val[1] # val[2]
  /\ base # <<>>

(***************************************************************************)
(* The marshaling operations applied one at a time, in any order, to one   *)
(* call context: what a call of the Call trait does to the stack whatever  *)
(* the caller pushed before.                                               *)
(***************************************************************************)
MaxOps == 2

OpNums == {1}
OpChars == {"a"}
OpStrings == {<<"a">>}
OpTuples == {TupleOf(<<Scalar("u32"), Scalar("bool")>>)}
OpRecords == {RecordOf(PointFields)}
OpResults == {ResultOf(Scalar("u32"), Scalar("string")), ResultOf(NoType, Scalar("string"))}
OpVariants == {VariantOf(ShapeCases)}

\* guest values a call context may hold when an operation starts
OpValues ==
  { Undefined, Null, JsBool(TRUE), JsNum(1), JsStr(<<"a">>), JsStr(<<>>),
    JsArr(<<>>), JsArr(<<JsNum(1), JsBool(TRUE)>>),
    TagObject(JsStr(StrOk), TRUE, JsNum(1)), TagObject(JsStr(StrErr), FALSE, Undefined),
    TagObject(JsNum(0), TRUE, JsNum(1)), TagObject(JsNum(1), FALSE, Undefined),
    TagObject(JsStr(StrOk), TRUE, Undefined), TagObject(JsStr(<<"a">>), TRUE, JsNum(1)) }

InitOps ==
  /\ ty = NoType
  /\ val = 0
  /\ base \in {<<>>} \cup {<<v>> : v \in OpValues}
  /\ cx = [QjsCallContext EXCEPT !.stack = base]
  /\ phase = "ops"
  /\ out = NoOut
  /\ disc = -1
  /\ op = NoOp
  /\ steps = 0
  /\ RuntimeInit

\* one operation of the Call trait: name, the number of stack values it needs,
\* and its outcome r on the current context.  A panic ends the process.
Apply(name, need, r) ==
  /\ phase = "ops"
  /\ out.panic \in {NoPanic, "unset"}
  /\ steps < MaxOps
  /\ cx' = r.cx
  /\ out' = [ret |-> r.ret, panic |-> r.panic]
  /\ op' = [name |-> name, need |-> need, before |-> Depth(cx)]
  /\ steps' = steps + 1
  /\ UNCHANGED <<ty, val, base, phase, disc, rvars>>

Op_pop_bool == Apply("pop_bool", 1, pop_bool(cx))
Op_pop_u8 == Apply("pop_u8", 1, pop_u8(cx))
Op_pop_s8 == Apply("pop_s8", 1, pop_s8(cx))
Op_pop_u16 == Apply("pop_u16", 1, pop_u16(cx))
Op_pop_s16 == Apply("pop_s16", 1, pop_s16(cx))
Op_pop_u32 == Apply("pop_u32", 1, pop_u32(cx))
Op_pop_s32 == Apply("pop_s32", 1, pop_s32(cx))
Op_pop_u64 == Apply("pop_u64", 1, pop_u64(cx))
Op_pop_s64 == Apply("pop_s64", 1, pop_s64(cx))
Op_pop_f32 == Apply("pop_f32", 1, pop_f32(cx))
Op_pop_f64 == Apply("pop_f64", 1, pop_f64(cx))
Op_pop_char == Apply("pop_char", 1, pop_char(cx))
Op_pop_string == Apply("pop_string", 1, pop_string(cx))
Op_pop_enum == Apply("pop_enum", 1, pop_enum(cx))
Op_pop_flags == Apply("pop_flags", 1, pop_flags(cx))
Op_pop_borrow == Apply("pop_borrow", 1, pop_borrow(cx))
Op_pop_own == Apply("pop_own", 1, pop_own(cx))
Op_pop_future == Apply("pop_future", 1, pop_future(cx))
Op_pop_stream == Apply("pop_stream", 1, pop_stream(cx))
Op_push_bool == \E v \in BOOLEAN : Apply("push_bool", 0, push_bool(cx, v))
Op_push_u8 == \E v \in OpNums : Apply("push_u8", 0, push_u8(cx, v))
Op_push_s8 == \E v \in OpNums : Apply("push_s8", 0, push_s8(cx, v))
Op_push_u16 == \E v \in OpNums : Apply("push_u16", 0, push_u16(cx, v))
Op_push_s16 == \E v \in OpNums : Apply("push_s16", 0, push_s16(cx, v))
Op_push_u32 == \E v \in OpNums : Apply("push_u32", 0, push_u32(cx, v))
Op_push_s32 == \E v \in OpNums : Apply("push_s32", 0, push_s32(cx, v))
Op_push_u64 == \E v \in OpNums : Apply("push_u64", 0, push_u64(cx, v))
Op_push_s64 == \E v \in OpNums : Apply("push_s64", 0, push_s64(cx, v))
Op_push_f32 == \E v \in OpNums : Apply("push_f32", 0, push_f32(cx, v))
Op_push_f64 == \E v \in OpNums : Apply("push_f64", 0, push_f64(cx, v))
Op_push_char == \E v \in OpChars : Apply("push_char", 0, push_char(cx, v))
Op_push_string == \E v \in OpStrings : Apply("push_string", 0, push_string(cx, v))
Op_push_enum == \E v \in OpNums : Apply("push_enum", 0, push_enum(cx, v))
Op_push_flags == \E v \in OpNums : Apply("push_flags", 0, push_flags(cx, v))
Op_push_borrow == \E v \in OpNums : Apply("push_borrow", 0, push_borrow(cx, v))
Op_push_own == \E v \in OpNums : Apply("push_own", 0, push_own(cx, v))
Op_push_future == \E v \in OpNums : Apply("push_future", 0, push_future(cx, v))
Op_push_stream == \E v \in OpNums : Apply("push_stream", 0, push_stream(cx, v))
Op_pop_list == Apply("pop_list", 1, pop_list(cx))
Op_pop_option == Apply("pop_option", 1, pop_option(cx))
Op_pop_result == Apply("pop_result", 1, pop_result(cx))
Op_pop_variant == Apply("pop_variant", 1, pop_variant(cx))
Op_pop_tuple == \E t \in OpTuples : Apply("pop_tuple", 1, pop_tuple(cx, t))
Op_pop_record == \E t \in OpRecords : Apply("pop_record", 1, pop_record(cx, t))
Op_push_list == Apply("push_list", 0, push_list(cx))
Op_list_append == Apply("list_append", 2, list_append(cx))
Op_push_option == \E is_some \in BOOLEAN : Apply("push_option", 0, push_option(cx, is_some))
Op_push_result ==
  \E t \in OpResults, is_err \in BOOLEAN :
    Apply("push_result", IF ArmType(t, IF is_err THEN 1 ELSE 0) = NoType THEN 0 ELSE 1,
          push_result(cx, t, is_err))
Op_push_variant ==
  \E t \in OpVariants, tag \in 0..2 :
    Apply("push_variant", IF ArmType(t, tag) = NoType THEN 0 ELSE 1, push_variant(cx, t, tag))
Op_push_tuple == \E t \in OpTuples : Apply("push_tuple", Len(t.types), push_tuple(cx, t))
Op_push_record == \E t \in OpRecords : Apply("push_record", Len(t.fields), push_record(cx, t))

NextOps ==
  \/ Op_pop_bool
  \/ Op_pop_u8
  \/ Op_pop_s8
  \/ Op_pop_u16
  \/ Op_pop_s16
  \/ Op_pop_u32
  \/ Op_pop_s32
  \/ Op_pop_u64
  \/ Op_pop_s64
  \/ Op_pop_f32
  \/ Op_pop_f64
  \/ Op_pop_char
  \/ Op_pop_string
  \/ Op_pop_enum
  \/ Op_pop_flags
  \/ Op_pop_borrow
  \/ Op_pop_own
  \/ Op_pop_future
  \/ Op_pop_stream
  \/ Op_push_bool
  \/ Op_push_u8
  \/ Op_push_s8
  \/ Op_push_u16
  \/ Op_push_s16
  \/ Op_push_u32
  \/ Op_push_s32
  \/ Op_push_u64
  \/ Op_push_s64
  \/ Op_push_f32
  \/ Op_push_f64
  \/ Op_push_char
  \/ Op_push_string
  \/ Op_push_enum
  \/ Op_push_flags
  \/ Op_push_borrow
  \/ Op_push_own
  \/ Op_push_future
  \/ Op_push_stream
  \/ Op_pop_list
  \/ Op_pop_option
  \/ Op_pop_result
  \/ Op_pop_variant
  \/ Op_pop_tuple
  \/ Op_pop_record
  \/ Op_push_list
  \/ Op_list_append
  \/ Op_push_option
  \/ Op_push_result
  \/ Op_push_variant
  \/ Op_push_tuple
  \/ Op_push_record

SpecOps == InitOps /\ [][NextOps]_vars

\* C8: an operation that needs more values than the stack holds ends in the
\* fatal stack-underflow error.
C8_UnderflowIsFatal ==
  (phase = "ops" /\ op.need > op.before) => out.panic = Underflow

(***************************************************************************)
(* The WIT worlds of the interpreter binding.  An interface name is the    *)
(* sequence <<bare>> or <<bare, "@version">>; <<>> stands for no interface *)
(* (func.interface() being None).                                          *)
(***************************************************************************)
NoInterface == <<>>
RandomIface == <<"wasi:random/random", "@0.2.0">>
ClockIface == <<"wasi:clocks/clock">>

ExportFunction(name, params, result) == [name |-> name, params |-> params, result |-> result]
ImportFunction(name, interface, index, params, result) ==
  [name |-> name, interface |-> interface, index |-> index, params |-> params,
   result |-> result]
NamedType(name, interface, names) == [name |-> name, interface |-> interface, names |-> names]

Exports ==
  << ExportFunction(<<<<"s", "a", "f", "e">>, <<"d", "i", "v">>>>, <<Scalar("u32"), Scalar("u32")>>, Scalar("u32")),
     ExportFunction(<<<<"l", "o", "g">>>>, <<Scalar("u32")>>, NoType) >>

WorldA ==
  [ imports |->
      << ImportFunction(<<<<"g", "e", "t">>, <<"r", "a", "n", "d", "o", "m">>>>, RandomIface, 0, <<>>, Scalar("u32")),
         ImportFunction(<<<<"p", "r", "i", "n", "t">>>>, NoInterface, 1, <<Scalar("u32"), Scalar("u32")>>, NoType) >>,
    flags |-> << NamedType(<<<<"p", "e", "r", "m", "s">>>>, RandomIface, <<<<<<"r", "e", "a", "d">>>>, <<<<"w", "r", "i", "t", "e">>>>>>) >>,
    enums |-> << NamedType(<<<<"c", "o", "l", "o", "r">>>>, RandomIface, <<<<<<"r", "e", "d">>>>, <<<<"r", "e", "d">>, <<"b", "l", "u", "e">>>>>>) >> ]

\* the width of a flags value: push_flags and pop_flags carry one u32
FlagBits == 32
\* the names f-a .. f-z, f-ax .. f-fx of a flags type that declares FlagBits flags
MaskNames ==
  [i \in 1..FlagBits |->
     << <<"f">>, <<LowerChars[((i - 1) % 26) + 1]>> \o (IF i > 26 THEN <<"x">> ELSE <<>>) >>]

WorldB ==
  [ imports |->
      << ImportFunction(<<<<"n", "o", "w">>>>, ClockIface, 0, <<Scalar("u32")>>, Scalar("u32")) >>,
    flags |-> << NamedType(<<<<"m", "a", "s", "k">>>>, ClockIface, MaskNames) >>,
    enums |-> <<>> ]

\* the empty world
WorldC == [imports |-> <<>>, flags |-> <<>>, enums |-> <<>>]

\* a world that imports two versions of one interface
StreamsIface2 == <<"wasi:io/streams", "@0.2.0">>
StreamsIface3 == <<"wasi:io/streams", "@0.3.0">>

WorldD ==
  [ imports |->
      << ImportFunction(<<<<"f", "l", "u", "s", "h">>>>, StreamsIface2, 0, <<>>, NoType) >>,
    flags |-> <<>>,
    enums |-> << NamedType(<<<<"m", "o", "d", "e">>>>, StreamsIface3,
                           << <<<<"a", "b">>, <<"c">>>>, <<<<"a">>, <<"b", "c">>>>, <<<<"a", "b", "c">>>> >>) >> ]

Worlds == <<WorldA, WorldB, WorldC, WorldD>>

\* the WIT singleton: 0 while the OnceCell is empty, else the index of the world
NoWit == 0

(***************************************************************************)
(* Guest functions and the global object.                                  *)
(***************************************************************************)
JsImportFn(index) == [k |-> "fn", import |-> index]
JsGuestFn(key) == [k |-> "guestfn", name |-> key]

EmptyObject == <<>>
ObjSet(f, key, v) == [x \in DOMAIN f \cup {key} |-> IF x = key THEN v ELSE f[x]]

\* the JavaScript sources handed to init: one that defines the exported
\* functions, one that defines nothing, two whose evaluation fails
Sources == {"good", "empty", "bad", "throws"}
EvalFails(js_source) == js_source \in {"bad", "throws"}

RECURSIVE DefineExports(_, _)
DefineExports(g, i) ==
  IF i > Len(Exports) THEN g
  ELSE LET key == to_lower_camel_case(Exports[i].name)
       IN DefineExports(ObjSet(g, key, JsGuestFn(key)), i + 1)

(***************************************************************************)
(* Import registration.                                                    *)
(***************************************************************************)
SeqRange(q) == {q[i] : i \in 1..Len(q)}

\* the keys of the interface map built by partition_imports
InterfaceNames(w) ==
  {f.interface : f \in SeqRange(w.imports)}
  \cup {t.interface : t \in {x \in SeqRange(w.flags) : x.interface # NoInterface}}
  \cup {t.interface : t \in {x \in SeqRange(w.enums) : x.interface # NoInterface}}

\* the JsInterface of one key: its funcs, flags and enums in declaration order
partition_imports(w, iface) ==
  [ funcs |-> SelectSeq(w.imports, LAMBDA f : f.interface = iface),
    flags |-> SelectSeq(w.flags, LAMBDA t : t.interface = iface /\ iface # NoInterface),
    enums |-> SelectSeq(w.enums, LAMBDA t : t.interface = iface /\ iface # NoInterface) ]

RECURSIVE Pow2(_)
Pow2(i) == IF i = 0 THEN 1 ELSE 2 * Pow2(i - 1)

Digits == <<"0", "1", "2", "3", "4", "5", "6", "7", "8", "9">>
IndexKey(i) == <<Digits[i + 1]>>

RECURSIVE KebabString(_)
KebabString(name) ==
  IF Len(name) = 1 THEN name[1] ELSE name[1] \o <<"-">> \o KebabString(Tail(name))

\* 1u32 << i: the shift amount is taken modulo the width; bit 31 is the u32
\* held as the lowest i32
Shl32(i) == IF i % FlagBits = FlagBits - 1 THEN MinI32 ELSE Pow2(i % FlagBits)

\* a flags object whose flags carry their index, as enum cases do
RECURSIVE FlagsObject_index(_, _, _)
FlagsObject_index(obj, names, i) ==
  IF i > Len(names) THEN obj
  ELSE FlagsObject_index(ObjSet(obj, to_upper_camel_case(names[i]), JsNum(i - 1)), names, i + 1)

RECURSIVE FlagsObject(_, _, _)
FlagsObject(obj, names, i) ==
  IF i > Len(names) THEN obj
  ELSE FlagsObject(ObjSet(obj, to_upper_camel_case(names[i]), NewNumberU32(Shl32(i - 1))), names, i + 1)

\* an enum object whose cases carry the bit of their position, as flags do
RECURSIVE EnumObject_bits(_, _, _)
EnumObject_bits(obj, names, i) ==
  IF i > Len(names) THEN obj
  ELSE EnumObject_bits(
         ObjSet(ObjSet(obj, to_upper_camel_case(names[i]), JsNum(Pow2(i - 1))),
                IndexKey(i - 1), JsStr(KebabString(names[i]))),
         names, i + 1)

\* create_interface_object: the object of one enum, filled case by case
RECURSIVE EnumObject(_, _, _)
EnumObject(obj, names, i) ==
  IF i > Len(names) THEN obj
  ELSE EnumObject(
         ObjSet(ObjSet(obj, to_upper_camel_case(names[i]), JsNum(i - 1)),
                IndexKey(i - 1), JsStr(KebabString(names[i]))),
         names, i + 1)

RECURSIVE AddFlags(_, _, _)
AddFlags(obj, flags, i) ==
  IF i > Len(flags) THEN obj
  ELSE AddFlags(ObjSet(obj, to_upper_camel_case(flags[i].name),
                       JsObj(FlagsObject(EmptyObject, flags[i].names, 1))), flags, i + 1)

RECURSIVE AddEnums(_, _, _)
AddEnums(obj, enums, i) ==
  IF i > Len(enums) THEN obj
  ELSE AddEnums(ObjSet(obj, to_upper_camel_case(enums[i].name),
                       JsObj(EnumObject(EmptyObject, enums[i].names, 1))), enums, i + 1)

\* functions set under their upper-camel-case name, as types are
RECURSIVE AddFuncs_upper(_, _, _)
AddFuncs_upper(obj, funcs, i) ==
  IF i > Len(funcs) THEN obj
  ELSE AddFuncs_upper(ObjSet(obj, to_upper_camel_case(funcs[i].name), JsImportFn(funcs[i].index)),
                      funcs, i + 1)

RECURSIVE AddFuncs(_, _, _)
AddFuncs(obj, funcs, i) ==
  IF i > Len(funcs) THEN obj
  ELSE AddFuncs(ObjSet(obj, to_lower_camel_case(funcs[i].name), JsImportFn(funcs[i].index)),
                funcs, i + 1)

create_interface_object(interface) ==
  AddFuncs(AddEnums(AddFlags(EmptyObject, interface.flags, 1), interface.enums, 1),
           interface.funcs, 1)

\* every key of obj copied onto g
Flatten(g, obj) ==
  [x \in DOMAIN g \cup DOMAIN obj |-> IF x \in DOMAIN obj THEN obj[x] ELSE g[x]]

\* the interfaces are visited in the order the hash map yields them
RECURSIVE register_imports(_, _, _, _)
register_imports(g, w, order, i) ==
  IF i > Len(order) THEN g
  ELSE LET obj == create_interface_object(partition_imports(w, order[i]))
       IN IF order[i] = NoInterface
          THEN register_imports(Flatten(g, obj), w, order, i + 1)
          ELSE register_imports(
                 ObjSet(ObjSet(g, <<order[i][1]>>, JsObj(obj)), order[i], JsObj(obj)),
                 w, order, i + 1)

Orders(S) ==
  {q \in [1..Cardinality(S) -> S] : \A i, j \in 1..Cardinality(S) : q[i] = q[j] => i = j}

\* the import functions a guest can reach through the global object
ReachableImports(g) ==
  {g[x].import : x \in {y \in DOMAIN g : g[y].k = "fn"}}
  \cup UNION {{g[x].f[z].import : z \in {y \in DOMAIN g[x].f : g[x].f[y].k = "fn"}} :
                x \in {y \in DOMAIN g : g[y].k = "obj"}}

(***************************************************************************)
(* The interpreter binding and the init entry point.                       *)
(***************************************************************************)
MaxArgs == 2
MaxCx == 2
MaxInitialize == 2

\* the allocator hands out the lowest address that holds no live allocation
NextPtr(live) ==
  8 * (CHOOSE n \in 1..(Cardinality(live) + 1) :
         8 * n \notin live /\ \A m \in 1..(n - 1) : 8 * m \in live)
Layouts == {<<8, 4>>}
HostNums == {1, 2}
HostResults == {7}
GuestReturns == {Undefined, JsNum(1)}
ArgLists == UNION {[1..n -> {JsNum(1), JsNum(2)}] : n \in 0..MaxArgs}

Ok == [ok |-> TRUE, err |-> <<>>]
Err(msg) == [ok |-> FALSE, err |-> msg]

AlreadyEvaluated == <<"JavaScript already evaluated">>

\* the engine error of a failed evaluation, and its two renderings
EngineError(src) == "Exception"
debug(err) == <<"{:?}", err>>
display(err) == <<"{}", err>>
EvalFailed(src) == <<"Failed to evaluate JavaScript: ">> \o debug(EngineError(src))

\* what init_js does after the flag: the evaluation, then the two resets
Evaluated(src) == <<"eval", src>>
Resets == << <<"reset_adapter_state">>, <<"__wasilibc_reset_preopens">> >>

\* init_js without the test of the flag
init_js_unguarded(evaluated, js_source) ==
  IF EvalFails(js_source)
  THEN [evaluated |-> TRUE, evals |-> TRUE, trace |-> <<Evaluated(js_source)>>,
        result |-> Err(EvalFailed(js_source))]
  ELSE [evaluated |-> TRUE, evals |-> TRUE,
        trace |-> <<Evaluated(js_source)>> \o Resets, result |-> Ok]

\* init_js resetting the preopens before the adapter state
init_js_resets_swapped(evaluated, js_source) ==
  IF evaluated
  THEN [evaluated |-> TRUE, evals |-> FALSE, trace |-> <<>>, result |-> Err(AlreadyEvaluated)]
  ELSE IF EvalFails(js_source)
  THEN [evaluated |-> TRUE, evals |-> TRUE, trace |-> <<Evaluated(js_source)>>,
        result |-> Err(EvalFailed(js_source))]
  ELSE [evaluated |-> TRUE, evals |-> TRUE,
        trace |-> <<Evaluated(js_source)>> \o Reverse(Resets), result |-> Ok]

\* init_js giving the flag back when the evaluation fails
init_js_retry(evaluated, js_source) ==
  IF evaluated
  THEN [evaluated |-> TRUE, evals |-> FALSE, trace |-> <<>>, result |-> Err(AlreadyEvaluated)]
  ELSE IF EvalFails(js_source)
  THEN [evaluated |-> FALSE, evals |-> TRUE, trace |-> <<Evaluated(js_source)>>,
        result |-> Err(EvalFailed(js_source))]
  ELSE [evaluated |-> TRUE, evals |-> TRUE,
        trace |-> <<Evaluated(js_source)>> \o Resets, result |-> Ok]

\* init_js: the new flag, whether the source is evaluated, what is done after
\* the flag in order, and the result
init_js(evaluated, js_source) ==
  IF evaluated
  THEN [evaluated |-> TRUE, evals |-> FALSE, trace |-> <<>>, result |-> Err(AlreadyEvaluated)]
  ELSE IF EvalFails(js_source)
  THEN [evaluated |-> TRUE, evals |-> TRUE, trace |-> <<Evaluated(js_source)>>,
        result |-> Err(EvalFailed(js_source))]
  ELSE [evaluated |-> TRUE, evals |-> TRUE,
        trace |-> <<Evaluated(js_source)>> \o Resets, result |-> Ok]

\* initialize storing the world whatever the cell holds
initialize_overwrite(cell, wit_def) == [WIT |-> wit_def, panic |-> NoPanic]

\* WIT.0.set(wit_def): the cell afterwards, and the panic of the unwrap_or_else
initialize(cell, wit_def) ==
  IF cell # NoWit
  THEN [WIT |-> cell, panic |-> "WIT already initialized"]
  ELSE [WIT |-> wit_def, panic |-> NoPanic]

\* fn wit(): the stored world, or the panic of the expect
wit(cell) ==
  IF cell = NoWit THEN [wit |-> NoWit, panic |-> "WIT not initialized"]
  ELSE [wit |-> cell, panic |-> NoPanic]

\* a drop that releases the deferred allocations last-in first-out
drop_reversed(c) == Reverse(c.deferred_deallocs)

\* impl Drop for QjsCallContext: the deallocations made, in order
drop(c) == c.deferred_deallocs

\* export_call: the arguments handed to the guest function
export_call_args(c) == c.stack
\* export_call leaving the arguments on the stack
export_call_stack_kept(c) == c.stack

\* export_call: cx.stack after drain(..)
export_call_stack(c) == <<>>

\* export_call pushing the return value whatever the function declares
export_call_result_always(func, result) == <<result>>

\* export_call: the stack after the guest function returned result
export_call_result(func, result) ==
  IF func.result # NoType THEN <<result>> ELSE <<>>

\* call_import pushing the arguments first to last
call_import_stack_forward(args) == args

\* call_import: the stack of the fresh context, and the value returned
call_import_stack(args) == Reverse(args)
call_import_result(c) == IF Depth(c) > 0 THEN Top(c) ELSE Undefined

Frame(kind, id, func, st) ==
  [kind |-> kind, id |-> id, func |-> func, cx |-> QjsCallContext, st |-> st,
   ins |-> <<>>, seen |-> <<>>]

InFlight == Len(frames) > 0
TopFrame == frames[Len(frames)]
SetTop(f) == [frames EXCEPT ![Len(frames)] = f]
FrameFunc(f) ==
  IF f.kind = "export" THEN Exports[f.func] ELSE Worlds[WIT].imports[f.func + 1]
Alive == fatal = NoPanic /\ phase = "run"

Frees(id, entries) == [i \in 1..Len(entries) |-> [cx |-> id, ptr |-> entries[i][1],
                                                   layout |-> entries[i][2]]]

MarshalIdle ==
  /\ ty = NoType
  /\ val = 0
  /\ base = <<>>
  /\ cx = QjsCallContext
  /\ phase = "run"
  /\ out = NoOut
  /\ disc = -1
  /\ op = NoOp
  /\ steps = 0

\* the module right after it was loaded: nothing initialized, nothing evaluated
InitBoot ==
  /\ MarshalIdle
  /\ RuntimeInit

\* the instance when calls arrive: either as loaded, or after one initialize
\* and one successful init
Init ==
  /\ MarshalIdle
  /\ \/ RuntimeInit
     \/ /\ WIT \in 1..Len(Worlds)
        /\ \E order \in Orders(InterfaceNames(Worlds[WIT])) :
             globals = DefineExports(register_imports(<<>>, Worlds[WIT], order, 1), 1)
        /\ registerCount = 1
        /\ initializeCalls = 1
        /\ initializeArg = WIT
        /\ JS_EVALUATED = TRUE
        /\ evalCount = 1
        /\ initCalls = 1
        /\ initResults = <<init_js(FALSE, "good").result>>
        /\ initLog = init_js(FALSE, "good").trace
        /\ frames = <<>>
        /\ nextCx = 0
        /\ deferLog = <<>>
        /\ freed = <<>>
        /\ fatal = "none"
        /\ guestGot = [k |-> "undefined"]
        /\ XIdle

\* Interpreter::initialize
Initialize ==
  /\ Alive /\ ~InFlight
  /\ initializeCalls < MaxInitialize
  /\ \E w \in 1..Len(Worlds) :
       LET r == initialize(WIT, w)
       IN /\ initializeArg' = w
          /\ WIT' = r.WIT
          /\ fatal' = r.panic
          /\ IF r.panic = NoPanic
             THEN /\ \E order \in Orders(InterfaceNames(Worlds[w])) :
                       globals' = register_imports(globals, Worlds[w], order, 1)
                  /\ registerCount' = registerCount + 1
             ELSE UNCHANGED <<globals, registerCount>>
  /\ initializeCalls' = initializeCalls + 1
  /\ UNCHANGED <<JS_EVALUATED, evalCount, initCalls, initResults, initLog, frames, nextCx,
                 deferLog, freed, guestGot, mvars, xvars>>

\* the init export: init_js
InitJs ==
  /\ Alive /\ ~InFlight
  /\ initCalls < MaxInit
  /\ \E js \in Sources :
       LET r == init_js(JS_EVALUATED, js)
       IN /\ JS_EVALUATED' = r.evaluated
          /\ evalCount' = evalCount + (IF r.evals THEN 1 ELSE 0)
          /\ globals' = IF r.evals /\ js = "good" THEN DefineExports(globals, 1) ELSE globals
          /\ initLog' = initLog \o r.trace
          /\ initResults' = Append(initResults, r.result)
  /\ initCalls' = initCalls + 1
  /\ UNCHANGED <<WIT, registerCount, initializeCalls, initializeArg, frames, nextCx,
                 deferLog, freed, fatal, guestGot, mvars, xvars>>

\* an export_start that hands out a context with a value left on its stack
export_start_stale(wit_def, func) == [QjsCallContext EXCEPT !.stack = <<JsNum(func)>>]

\* Interpreter::export_start: Box::new(QjsCallContext::default())
export_start(wit_def, func) == QjsCallContext

\* Interpreter::export_start
ExportStart ==
  /\ Alive /\ ~InFlight
  /\ nextCx < MaxCx
  /\ \E f \in 1..Len(Exports) :
       frames' = Append(frames, [Frame("export", nextCx + 1, f, "started") EXCEPT
                                   !.cx = export_start(WIT, f)])
  /\ nextCx' = nextCx + 1
  /\ deferLog' = Append(deferLog, <<>>)
  /\ UNCHANGED <<WIT, globals, registerCount, initializeCalls, initializeArg, JS_EVALUATED,
                 evalCount, initCalls, initResults, initLog, freed, fatal, guestGot, mvars, xvars>>

FrameStep == UNCHANGED <<WIT, globals, registerCount, initializeCalls, initializeArg,
                         JS_EVALUATED, evalCount, initCalls, initResults, initLog, nextCx,
                         deferLog, freed, guestGot, mvars, xvars>>

\* the adapter lowers a parameter of the export onto the context
AdapterPush ==
  /\ Alive /\ InFlight
  /\ TopFrame.kind = "export" /\ TopFrame.st = "started"
  /\ Depth(TopFrame.cx) < MaxStack
  /\ \E v \in HostNums :
       LET r == push_u32(TopFrame.cx, v)
       IN /\ frames' = SetTop([TopFrame EXCEPT !.cx = r.cx, !.ins = Append(@, Top(r.cx))])
          /\ fatal' = r.panic
  /\ FrameStep

\* Interpreter::export_call up to the call of the guest function
ExportCallEnter ==
  /\ Alive /\ InFlight
  /\ TopFrame.kind = "export" /\ TopFrame.st = "started"
  /\ LET key == to_lower_camel_case(Exports[TopFrame.func].name)
     IN IF key \in DOMAIN globals /\ globals[key].k = "guestfn"
        THEN /\ frames' = SetTop([TopFrame EXCEPT !.st = "running",
                                                  !.seen = export_call_args(TopFrame.cx),
                                                  !.cx.stack = export_call_stack(TopFrame.cx)])
             /\ fatal' = NoPanic
        ELSE /\ fatal' = "Failed to get function"
             /\ UNCHANGED frames
  /\ FrameStep

\* the guest function returns (its locals die): the rest of Interpreter::export_call
GuestReturn ==
  /\ Alive /\ InFlight
  /\ TopFrame.kind = "export" /\ TopFrame.st = "running"
  /\ \E result \in GuestReturns :
       frames' = SetTop([TopFrame EXCEPT !.st = "returned",
                           !.cx.stack = @ \o export_call_result(Exports[TopFrame.func], result)])
  /\ guestGot' = Undefined
  /\ UNCHANGED <<WIT, globals, registerCount, initializeCalls, initializeArg, JS_EVALUATED,
                 evalCount, initCalls, initResults, initLog, nextCx, deferLog, freed, fatal,
                 mvars, xvars>>

\* the guest function throws: the panic of call_arg(..).unwrap_or_else
GuestThrow ==
  /\ Alive /\ InFlight
  /\ TopFrame.kind = "export" /\ TopFrame.st = "running"
  /\ fatal' = "Failed to call"
  /\ UNCHANGED frames
  /\ FrameStep

\* the adapter lifts the result of the export
AdapterPopResult ==
  /\ Alive /\ InFlight
  /\ TopFrame.kind = "export" /\ TopFrame.st = "returned"
  /\ Exports[TopFrame.func].result # NoType
  /\ LET r == pop_u32(TopFrame.cx)
     IN /\ frames' = SetTop([TopFrame EXCEPT !.cx = r.cx, !.st = "lifted"])
        /\ fatal' = r.panic
  /\ FrameStep

\* Interpreter::export_finish: the context is dropped
ExportFinish ==
  /\ Alive /\ InFlight
  /\ TopFrame.kind = "export" /\ TopFrame.st \in {"returned", "lifted"}
  /\ freed' = freed \o Frees(TopFrame.id, drop(TopFrame.cx))
  /\ frames' = SubSeq(frames, 1, Len(frames) - 1)
  /\ UNCHANGED <<WIT, globals, registerCount, initializeCalls, initializeArg, JS_EVALUATED,
                 evalCount, initCalls, initResults, initLog, nextCx, deferLog, fatal,
                 guestGot, mvars, xvars>>

\* the allocations registered on the contexts that are alive
LiveAllocs ==
  UNION {{e[1] : e \in SeqRange(frames[i].cx.deferred_deallocs)} : i \in 1..Len(frames)}

\* Call::defer_deallocate, called by the adapter on the context it works on
DeferDeallocate ==
  /\ Alive /\ InFlight
  /\ TopFrame.st # "running"
  /\ Len(TopFrame.cx.deferred_deallocs) < MaxDefer
  /\ \E layout \in Layouts :
       LET ptr == NextPtr(LiveAllocs)
       IN /\ frames' = SetTop([TopFrame EXCEPT !.cx = defer_deallocate(@, ptr, layout)])
          /\ deferLog' = [deferLog EXCEPT ![TopFrame.id] = Append(@, <<ptr, layout>>)]
  /\ UNCHANGED <<WIT, globals, registerCount, initializeCalls, initializeArg, JS_EVALUATED,
                 evalCount, initCalls, initResults, initLog, nextCx, freed, fatal,
                 guestGot, mvars, xvars>>

\* the guest calls an import function: call_import up to the dispatch
CallImportEnter ==
  /\ Alive /\ InFlight
  /\ TopFrame.kind = "export" /\ TopFrame.st = "running"
  /\ nextCx < MaxCx
  /\ \E index \in ReachableImports(globals), args \in ArgLists :
       IF wit(WIT).panic # NoPanic
       THEN /\ fatal' = wit(WIT).panic
            /\ UNCHANGED <<frames, nextCx, deferLog>>
       ELSE /\ frames' = Append(frames,
                 [Frame("import", nextCx + 1, index, "before") EXCEPT
                    !.cx.stack = call_import_stack(args), !.ins = args])
            /\ nextCx' = nextCx + 1
            /\ deferLog' = Append(deferLog, <<>>)
            /\ UNCHANGED fatal
  /\ UNCHANGED <<WIT, globals, registerCount, initializeCalls, initializeArg, JS_EVALUATED,
                 evalCount, initCalls, initResults, initLog, freed, guestGot, mvars, xvars>>

\* call_import_sync: the adapter lifts the next parameter of the import
DispatchPop ==
  /\ Alive /\ InFlight
  /\ TopFrame.kind = "import" /\ TopFrame.st \in {"before", "popping"}
  /\ Len(TopFrame.seen) < Len(FrameFunc(TopFrame).params)
  /\ LET r == pop_u32(TopFrame.cx)
     IN /\ frames' = SetTop([TopFrame EXCEPT !.cx = r.cx, !.st = "popping",
                               !.seen = IF r.panic = NoPanic THEN Append(@, r.ret) ELSE @])
        /\ fatal' = r.panic
  /\ FrameStep

\* call_import_sync: the host function ran, the adapter lowers its result
DispatchFinish ==
  /\ Alive /\ InFlight
  /\ TopFrame.kind = "import" /\ TopFrame.st \in {"before", "popping"}
  /\ Len(TopFrame.seen) = Len(FrameFunc(TopFrame).params)
  /\ \E v \in HostResults :
       LET r == IF FrameFunc(TopFrame).result # NoType THEN push_u32(TopFrame.cx, v)
                ELSE Ret(TopFrame.cx, 0)
       IN /\ frames' = SetTop([TopFrame EXCEPT !.cx = r.cx, !.st = "after"])
          /\ fatal' = r.panic
  /\ FrameStep

\* call_import after the dispatch: the top of the stack goes to the guest,
\* the context is dropped
CallImportReturn ==
  /\ Alive /\ InFlight
  /\ TopFrame.kind = "import" /\ TopFrame.st = "after"
  /\ guestGot' = call_import_result(TopFrame.cx)
  /\ freed' = freed \o Frees(TopFrame.id, drop(TopFrame.cx))
  /\ frames' = SubSeq(frames, 1, Len(frames) - 1)
  /\ UNCHANGED <<WIT, globals, registerCount, initializeCalls, initializeArg, JS_EVALUATED,
                 evalCount, initCalls, initResults, initLog, nextCx, deferLog, fatal, mvars, xvars>>

NextBoot == Initialize \/ InitJs

SpecBoot == InitBoot /\ [][NextBoot]_vars

Next ==
  \/ ExportStart
  \/ AdapterPush
  \/ ExportCallEnter
  \/ GuestReturn
  \/ GuestThrow
  \/ AdapterPopResult
  \/ ExportFinish
  \/ DeferDeallocate
  \/ CallImportEnter
  \/ DispatchPop
  \/ DispatchFinish
  \/ CallImportReturn

Spec == Init /\ [][Next]_vars

HasResult(func) == func.result # NoType
ExportFrames == {i \in 1..Len(frames) : frames[i].kind = "export"}
ImportFrames == {i \in 1..Len(frames) : frames[i].kind = "import"}

\* C3: when export_call has returned, the stack of its context holds exactly
\* one value if the function declares a result and none otherwise, whatever
\* the stack held before the call.
C3_ExportReturnDepth ==
  \A i \in ExportFrames :
    frames[i].st = "returned" =>
      Depth(frames[i].cx) = (IF HasResult(Exports[frames[i].func]) THEN 1 ELSE 0)

C3_Witness ==
  /\ InFlight
  /\ TopFrame.kind = "export" /\ TopFrame.st = "returned"
  /\ HasResult(Exports[TopFrame.func])
  /\ Len(TopFrame.seen) = MaxStack

\* C4: the context built by call_import holds as many values as the import
\* declares parameters right before the dispatch runs, and one value if the
\* import declares a result (none otherwise) when the dispatch has returned.
C4_ImportCallDepth ==
  \A i \in ImportFrames :
    /\ frames[i].st = "before" =>
         Depth(frames[i].cx) = Len(FrameFunc(frames[i]).params)
    /\ frames[i].st = "after" =>
         Depth(frames[i].cx) = (IF HasResult(FrameFunc(frames[i])) THEN 1 ELSE 0)

\* C5: the guest function receives the values of the stack in insertion
\* order, so its i-th argument is the i-th value the adapter pushed; the i-th
\* pop of the import dispatch yields the i-th JavaScript argument.
C5_ArgumentOrder ==
  /\ \A i \in ExportFrames :
       frames[i].st \in {"running", "returned", "lifted"} => frames[i].seen = frames[i].ins
  /\ \A i \in ImportFrames :
       \A j \in 1..Len(frames[i].seen) : JsNum(frames[i].seen[j]) = frames[i].ins[j]

C5_Witness ==
  /\ Len(frames) = 2
  /\ Len(frames[1].seen) = 2 /\ frames[1].seen[1] # frames[1].seen[2]
  /\ Len(frames[2].seen) = 2 /\ frames[2].seen[1] # frames[2].seen[2]

\* the deallocations made for context id, in the order they were made
FreedOf(id) == SelectSeq(freed, LAMBDA e : e.cx = id)
Dropped(id) == \A i \in 1..Len(frames) : frames[i].id # id

\* C7: once a context is destroyed (export_finish, or call_import returning)
\* every allocation registered on it was deallocated exactly once, in
\* insertion order; nothing registered on a live context is deallocated.
C7_DeferredFreedOnce ==
  \A id \in 1..nextCx :
    IF Dropped(id) THEN FreedOf(id) = Frees(id, deferLog[id])
    ELSE FreedOf(id) = <<>>

C7_Witness ==
  /\ frames = <<>>
  /\ nextCx = 2
  /\ Len(deferLog[1]) = MaxDefer /\ deferLog[1][1] # deferLog[1][2]
  /\ Len(deferLog[2]) >= 1
  /\ freed[1].cx = 2

LastResult == initResults[Len(initResults)]

\* C9: the first init call moves the evaluated flag from false to true and
\* evaluates the source; every later call returns Err("already evaluated")
\* and evaluates nothing; the source is evaluated at most once.
C9_InitOneShot ==
  /\ [][initCalls' = initCalls + 1 =>
          IF JS_EVALUATED
          THEN /\ initResults'[Len(initResults')] = Err(<<"already evaluated">>)
               /\ evalCount' = evalCount
               /\ JS_EVALUATED'
          ELSE /\ JS_EVALUATED'
               /\ evalCount' = evalCount + 1]_vars
  /\ [](evalCount <= 1)

\* C9 as amended: the error of every later call is
\* Err("JavaScript already evaluated").
C9_InitOneShotAmended ==
  /\ [][initCalls' = initCalls + 1 =>
          IF JS_EVALUATED
          THEN /\ initResults'[Len(initResults')] = Err(<<"JavaScript already evaluated">>)
               /\ evalCount' = evalCount
               /\ JS_EVALUATED'
          ELSE /\ JS_EVALUATED'
               /\ evalCount' = evalCount + 1]_vars
  /\ [](evalCount <= 1)

C9_Witness ==
  /\ initCalls >= 2
  /\ evalCount = 1
  /\ LastResult = Err(<<"JavaScript already evaluated">>)

\* C10: the first initialize stores the world and registers the imports; a
\* later initialize is fatal and neither replaces the stored WIT nor registers
\* imports again; reading the WIT while it is not set is fatal; a fatal error
\* ends the process.
C10_WitWrittenOnce ==
  /\ [][initializeCalls' = initializeCalls + 1 =>
          IF WIT = NoWit
          THEN /\ WIT' = initializeArg'
               /\ registerCount' = registerCount + 1
               /\ fatal' = NoPanic
          ELSE /\ fatal' = "WIT already initialized"
               /\ WIT' = WIT
               /\ registerCount' = registerCount
               /\ globals' = globals]_vars
  /\ [][fatal = NoPanic]_vars
  /\ [](registerCount <= 1)
  /\ [](WIT = NoWit => wit(WIT).panic = "WIT not initialized")

C10_Witness ==
  /\ fatal = "WIT already initialized"
  /\ WIT # NoWit
  /\ initializeArg # WIT
  /\ registerCount = 1

(***************************************************************************)
(* The cached engine scope.  with_ctx is entered by initialize, init_js,   *)
(* export_call and by the marshaling operations; JavaScript runs inside    *)
(* the closures of init_js and export_call only, and an import called from *)
(* it runs marshaling operations on its own call context.                  *)
(***************************************************************************)
MaxCtxCalls == 4

\* the callers whose closure runs JavaScript, and those whose closure does not
ScriptCallers == {"init_js", "export_call"}
MarshalCallers ==
  {"pop_u32", "pop_string", "pop_list", "pop_option", "pop_record",
   "push_u32", "push_string", "push_list", "push_result", "push_record"}
CtxCallers == ScriptCallers \cup MarshalCallers \cup {"initialize"}

\* with_ctx whose nested branch takes the engine scope as well
with_ctx_enter_always(cached, scope, addr) ==
  [CACHED_CTX |-> <<addr>>, engineScope |-> scope + 1, acquired |-> TRUE]

\* with_ctx up to the call of f: the pointer, the holders of the scope, and
\* whether this entrant took the scope
with_ctx_enter(cached, scope, addr) ==
  IF cached # <<>>
  THEN [CACHED_CTX |-> cached, engineScope |-> scope, acquired |-> FALSE]
  ELSE [CACHED_CTX |-> <<addr>>, engineScope |-> scope + 1, acquired |-> TRUE]

\* with_ctx after f returned
with_ctx_exit(cached, scope, acquired) ==
  IF acquired
  THEN [CACHED_CTX |-> <<>>, engineScope |-> scope - 1]
  ELSE [CACHED_CTX |-> cached, engineScope |-> scope]

\* the callers that can enter with_ctx at this point of the execution
CanEnter ==
  IF entrants = <<>> THEN CtxCallers
  ELSE IF entrants[Len(entrants)].who \in ScriptCallers THEN MarshalCallers
  ELSE {}

WithCtxEnter ==
  /\ phase = "ctx"
  /\ ctxCalls < MaxCtxCalls
  /\ \E who \in CanEnter :
       LET r == with_ctx_enter(CACHED_CTX, engineScope, Len(entrants) + 1)
       IN /\ CACHED_CTX' = r.CACHED_CTX
          /\ engineScope' = r.engineScope
          /\ entrants' = Append(entrants, [who |-> who, acquired |-> r.acquired])
  /\ ctxCalls' = ctxCalls + 1
  /\ UNCHANGED <<ty, val, base, cx, phase, out, disc, op, steps, svars, bvars, repeat>>

WithCtxExit ==
  /\ phase = "ctx"
  /\ entrants # <<>>
  /\ LET r == with_ctx_exit(CACHED_CTX, engineScope, entrants[Len(entrants)].acquired)
     IN /\ CACHED_CTX' = r.CACHED_CTX
        /\ engineScope' = r.engineScope
  /\ entrants' = SubSeq(entrants, 1, Len(entrants) - 1)
  /\ UNCHANGED <<ctxCalls, ty, val, base, cx, phase, out, disc, op, steps, svars, bvars, repeat>>

InitCtx ==
  /\ ty = NoType
  /\ val = 0
  /\ base = <<>>
  /\ cx = QjsCallContext
  /\ phase = "ctx"
  /\ out = NoOut
  /\ disc = -1
  /\ op = NoOp
  /\ steps = 0
  /\ RuntimeInit

NextCtx == WithCtxEnter \/ WithCtxExit

SpecCtx == InitCtx /\ [][NextCtx]_vars

\* C11: the cached pointer is set exactly while an outermost with_ctx is
\* running; the first entrant holds the engine scope and every nested entrant
\* reuses it; the scope is never taken while it is held.
C11_ReentrantScope ==
  /\ (CACHED_CTX # <<>>) <=> (entrants # <<>>)
  /\ engineScope = (IF entrants # <<>> THEN 1 ELSE 0)
  /\ \A i \in 1..Len(entrants) : entrants[i].acquired <=> (i = 1)
  /\ entrants # <<>> => CACHED_CTX = <<1>>

C11_Witness ==
  /\ Len(entrants) = 2
  /\ entrants[1].who = "export_call"
  /\ entrants[2].who = "pop_u32"
  /\ ctxCalls >= 3

(***************************************************************************)
(* The build on the host: componentize links the component, wizer_init    *)
(* runs init once and snapshots, stub_wasi_imports composes the WASI       *)
(* imports away.  A component is known by its kind, the names of its       *)
(* imports and exports, and whether it is a snapshot; a name is a sequence *)
(* of characters; an error is the chain of its messages, outermost first.  *)
(***************************************************************************)
WasiPrefix == <<"w", "a", "s", "i", ":">>

starts_with(str, pat) == Len(str) >= Len(pat) /\ SubSeq(str, 1, Len(pat)) = pat

ImportNames ==
  { <<"w", "a", "s", "i", ":", "i", "o", "/", "s", "t", "r", "e", "a", "m", "s", "@", "0", ".", "2", ".", "6">>,
    <<"w", "a", "s", "i", ":", "c", "l", "i", "/", "s", "t", "d", "i", "n">>,
    <<"w", "a", "s", "i", "x", ":", "n", "e", "t", "/", "t", "c", "p">>,
    <<"m", "y", ":", "w", "a", "s", "i", "/", "x">>,
    <<"w", "a", "s", "i">>,
    <<"l", "o", "g">> }

\* what stub_wasi_imports can be handed: a component, a WIT package, other bytes
InputKinds == {"component", "wit-package", "bytes"}

\* the exports of the decoded world: a function and a WASI interface
ExportNames ==
  { <<"r", "u", "n">>,
    <<"w", "a", "s", "i", ":", "c", "l", "i", "/", "r", "u", "n", "@", "0", ".", "2", ".", "6">> }

Component(kind, imports) ==
  [kind |-> kind, imports |-> imports,
   exports |-> IF kind = "component" THEN ExportNames ELSE {}, snapshot |-> FALSE]

BuildOk(c) == [ok |-> TRUE, chain |-> <<>>, at |-> "", component |-> c]
NoComponent == Component("none", {})
BuildErr(chain, at) == [ok |-> FALSE, chain |-> chain, at |-> at, component |-> NoComponent]

\* anyhow's context: the message goes in front of the chain
Context(msg, r) == IF r.ok THEN r ELSE [r EXCEPT !.chain = <<msg>> \o @]

\* the imports of the world whose qualified name starts with "wasi:"
wasi_imports_versioned(world) ==
  {key \in world.imports : starts_with(key, WasiPrefix) /\ \E i \in 1..Len(key) : key[i] = "@"}

\* a filter that stops at the first import it selects
wasi_imports_first(world) ==
  LET all == {key \in world.imports : starts_with(key, WasiPrefix)}
  IN IF all = {} THEN {} ELSE {CHOOSE key \in all : TRUE}

wasi_imports(world) == {key \in world.imports : starts_with(key, WasiPrefix)}

\* a stub world that exports every import of the original world
make_stub_component_all(world, wasi) ==
  [kind |-> "component", imports |-> {}, exports |-> world.imports, snapshot |-> FALSE]

\* the world of the stub: no imports, the WASI imports as exports
make_stub_component(world, wasi) ==
  [kind |-> "component", imports |-> {}, exports |-> wasi, snapshot |-> FALSE]

\* wac_graph::plug: the exports of the plug satisfy the imports of the same
\* name; what is left of both import sets is imported by the composition
plug(stub, orig) ==
  [orig EXCEPT !.imports = (@ \ stub.exports) \cup stub.imports]

\* stub_wasi_imports deciding on the import set it did not filter
stub_wasi_imports_always(bytes) ==
  [result |-> BuildOk(plug(make_stub_component(bytes, wasi_imports(bytes)), bytes)),
   stubBuilt |-> TRUE, composed |-> TRUE]

\* stub_wasi_imports: the value returned, and whether a stub component and a
\* composition were built
stub_wasi_imports(bytes) ==
  IF bytes.kind = "bytes"
  THEN [result |-> BuildErr(<<"failed to decode component WIT", "decode">>, "stub_wasi_imports"),
        stubBuilt |-> FALSE, composed |-> FALSE]
  ELSE IF bytes.kind # "component"
  THEN [result |-> BuildErr(<<"expected a component, got a WIT package">>, "stub_wasi_imports"),
        stubBuilt |-> FALSE, composed |-> FALSE]
  ELSE IF wasi_imports(bytes) = {}
  THEN [result |-> BuildOk(bytes), stubBuilt |-> FALSE, composed |-> FALSE]
  ELSE [result |-> BuildOk(plug(make_stub_component(bytes, wasi_imports(bytes)), bytes)),
        stubBuilt |-> TRUE, composed |-> TRUE]

\* the stage of componentize that fails before wizer_init, if any
FailPoints == {"none", "push_path", "select_world", "embed", "link"}

\* what the host environment does when the linked component is run, and the
\* output captured meanwhile
Outcomes == {"instantiation-error", "trap", "runs", "snapshot-error"}
Captured == {<<>>, <<"log line">>}

\* wizer_init attaching the captured output to every error
wizer_init_context_always(bytes, js, e) ==
  IF e.outcome = "runs" /\ init_js(FALSE, js).result.ok
  THEN [result |-> BuildOk([bytes EXCEPT !.snapshot = TRUE]), snapshotRan |-> TRUE,
        ran |-> <<"instantiate", "init", "snapshot">>]
  ELSE [result |-> BuildErr(<<e.stdout \o e.stderr, init_js(FALSE, js).result.err>>, "wizer_init"),
        snapshotRan |-> e.outcome = "snapshot-error",
        ran |-> IF e.outcome = "snapshot-error" THEN <<"instantiate", "init", "snapshot">>
                ELSE IF e.outcome = "instantiation-error" THEN <<"instantiate">>
                ELSE <<"instantiate", "init">>]

\* wizer_init: the value returned and whether the snapshot step was executed
wizer_init(bytes, js, e) ==
  IF e.outcome = "instantiation-error"
  THEN [result |-> BuildErr(<<<<"instantiation failed">>>>, "wizer_init"), snapshotRan |-> FALSE,
        ran |-> <<"instantiate">>]
  ELSE IF e.outcome = "trap"
  THEN [result |-> BuildErr(<<<<"wasm trap">>>>, "wizer_init"), snapshotRan |-> FALSE,
        ran |-> <<"instantiate", "init">>]
  ELSE LET r == init_js(FALSE, js).result
       IN IF ~r.ok
          THEN [result |-> BuildErr(<<e.stdout \o e.stderr, r.err>>, "wizer_init"),
                snapshotRan |-> FALSE, ran |-> <<"instantiate", "init">>]
          ELSE IF e.outcome = "snapshot-error"
          THEN [result |-> BuildErr(<<<<"snapshot failed">>>>, "wizer_init"), snapshotRan |-> TRUE,
                ran |-> <<"instantiate", "init", "snapshot">>]
          ELSE [result |-> BuildOk([bytes EXCEPT !.snapshot = TRUE]), snapshotRan |-> TRUE,
                ran |-> <<"instantiate", "init", "snapshot">>]

\* a call of componentize, or a call of stub_wasi_imports on bytes of any kind
InitBuild ==
  /\ ty = NoType
  /\ val = 0
  /\ base = <<>>
  /\ cx = QjsCallContext
  /\ phase = "build"
  /\ out = NoOut
  /\ disc = -1
  /\ op = NoOp
  /\ steps = 0
  /\ WIT = 0
  /\ globals = <<>>
  /\ registerCount = 0
  /\ initializeCalls = 0
  /\ initializeArg = 0
  /\ JS_EVALUATED = FALSE
  /\ evalCount = 0
  /\ initCalls = 0
  /\ initResults = <<>>
  /\ initLog = <<>>
  /\ frames = <<>>
  /\ nextCx = 0
  /\ deferLog = <<>>
  /\ freed = <<>>
  /\ fatal = "none"
  /\ guestGot = [k |-> "undefined"]
  /\ CtxIdle
  /\ repeat = NoRepeat
  /\ built = NoBuild
  /\ buildResult = <<>>
  /\ cli = NoCli
  /\ \E imports \in SUBSET ImportNames, js \in Sources, stub \in BOOLEAN, fails \in FailPoints :
       \/ /\ stage = "start"
          /\ opts = [imports |-> imports, js_source |-> js, stub_wasi |-> stub, fails |-> fails]
          /\ component = [kind |-> "none", imports |-> {}, exports |-> {}, snapshot |-> FALSE]
       \/ /\ stage = "snapshotted"
          /\ stub /\ fails = "none" /\ js = "good"
          /\ opts = [imports |-> imports, js_source |-> js, stub_wasi |-> stub, fails |-> fails]
          /\ \E kind \in InputKinds : component = Component(kind, imports)
  /\ env \in [outcome : Outcomes, stdout : Captured, stderr : Captured]

BuildStep == UNCHANGED <<opts, env, cli, mvars, svars, cvars, repeat>>

\* one stage of componentize before wizer_init: it runs, and either fails
\* with its error or hands on to the next stage
Stage(from, name, fails, chain, to) ==
  /\ stage = from
  /\ built' = [built EXCEPT !.ran = Append(@, name)]
  /\ IF opts.fails \in fails
     THEN /\ buildResult' = BuildErr(chain, name)
          /\ stage' = "failed"
          /\ UNCHANGED component
     ELSE /\ stage' = to
          /\ UNCHANGED buildResult
          /\ component' = IF to = "linked" THEN Component("component", opts.imports)
                          ELSE component
  /\ BuildStep

\* resolve.push_path and resolve.select_world
ResolveWit ==
  Stage("start", "resolve", {"push_path", "select_world"}, <<<<opts.fails>>>>, "resolved")

\* wit_dylib::create
GenerateAdapter == Stage("resolved", "adapter", {}, <<>>, "adapter")

\* wit_component::embed_component_metadata
EmbedMetadata == Stage("adapter", "metadata", {"embed"}, <<<<"embed">>>>, "embedded")

\* wit_component::Linker ... encode
Link ==
  Stage("embedded", "link", {"link"},
        <<<<"failed to link and encode component">>, <<"link">>>>, "linked")

WizerInit ==
  /\ stage = "linked"
  /\ LET r == wizer_init(component, opts.js_source, env)
     IN /\ built' = [built EXCEPT !.snapshotRan = r.snapshotRan, !.ran = @ \o r.ran]
        /\ IF r.result.ok
           THEN /\ component' = r.result.component
                /\ stage' = "snapshotted"
                /\ UNCHANGED buildResult
           ELSE /\ buildResult' = r.result
                /\ stage' = "failed"
                /\ UNCHANGED component
  /\ BuildStep

\* componentize stubbing whatever the options say
StubWasi_always ==
  /\ stage = "snapshotted"
  /\ LET r == stub_wasi_imports(component)
     IN /\ built' = [built EXCEPT !.stubBuilt = r.stubBuilt, !.composed = r.composed,
                                   !.ran = Append(@, "stub")]
        /\ IF r.result.ok
           THEN /\ component' = r.result.component
                /\ stage' = "stubbed"
                /\ UNCHANGED buildResult
           ELSE /\ buildResult' = Context(<<"failed to stub WASI imports">>, r.result)
                /\ stage' = "failed"
                /\ UNCHANGED component
  /\ BuildStep

\* componentize: if opts.stub_wasi { stub_wasi_imports(..) }
StubWasi ==
  /\ stage = "snapshotted"
  /\ opts.stub_wasi
  /\ LET r == stub_wasi_imports(component)
     IN /\ built' = [built EXCEPT !.stubBuilt = r.stubBuilt, !.composed = r.composed,
                                   !.ran = Append(@, "stub")]
        /\ IF r.result.ok
           THEN /\ component' = r.result.component
                /\ stage' = "stubbed"
                /\ UNCHANGED buildResult
           ELSE /\ buildResult' = Context(<<"failed to stub WASI imports">>, r.result)
                /\ stage' = "failed"
                /\ UNCHANGED component
  /\ BuildStep

\* componentize returns the component
Finish ==
  /\ \/ stage = "stubbed"
     \/ stage = "snapshotted" /\ ~opts.stub_wasi
  /\ buildResult' = BuildOk(component)
  /\ stage' = "done"
  /\ UNCHANGED <<component, built>>
  /\ BuildStep

NextBuild ==
  \/ ResolveWit
  \/ GenerateAdapter
  \/ EmbedMetadata
  \/ Link
  \/ WizerInit
  \/ StubWasi
  \/ Finish

SpecBuild == InitBuild /\ [][NextBuild]_vars

\* C12: the component stub_wasi_imports returns imports no name that starts
\* with "wasi:".
C12_NoWasiImports ==
  (stage = "stubbed" \/ (stage = "done" /\ opts.stub_wasi)) =>
     \A key \in component.imports : ~starts_with(key, WasiPrefix)

C12_Witness ==
  /\ stage = "stubbed"
  /\ built.composed
  /\ Cardinality(wasi_imports(Component("component", opts.imports))) >= 2
  /\ component.imports # {}

\* C13: when no import of the input component starts with "wasi:",
\* stub_wasi_imports returns the input unchanged and builds neither a stub
\* component nor a composition.
C13_NoWasiIsIdentity ==
  [][(stage = "snapshotted" /\ stage' # "snapshotted" /\ opts.stub_wasi
      /\ component.kind = "component" /\ wasi_imports(component) = {}) =>
        /\ stage' = "stubbed"
        /\ component' = component
        /\ ~built'.stubBuilt
        /\ ~built'.composed]_vars

C13_Witness ==
  /\ stage = "stubbed"
  /\ ~built.composed
  /\ component.imports # {}
  /\ component.snapshot

\* the build failed in wizer_init before the snapshot step
InitFailed == stage = "failed" /\ buildResult.at = "wizer_init" /\ env.outcome # "snapshot-error"
InitReturnedErr == InitFailed /\ env.outcome = "runs"

\* C14: when init returns Err or the instantiation fails, the error of
\* wizer_init carries the JavaScript diagnostic under the captured stdout and
\* stderr, the snapshot step was not executed and no component is returned.
C14_InitErrorContext ==
  (InitFailed /\ env.outcome \in {"runs", "instantiation-error"}) =>
     /\ buildResult.chain = <<env.stdout \o env.stderr, init_js(FALSE, opts.js_source).result.err>>
     /\ ~built.snapshotRan
     /\ ~buildResult.ok
     /\ buildResult.component = NoComponent

\* C14 as amended: the captured output and the JavaScript diagnostic are
\* carried when init returned Err; a failed instantiation (or a trap) is
\* returned as it is, without the captured output; in both cases the snapshot
\* step was not executed and no component is returned.
C14_InitErrorContextAmended ==
  /\ InitReturnedErr =>
       buildResult.chain = <<env.stdout \o env.stderr, init_js(FALSE, opts.js_source).result.err>>
  /\ (InitFailed /\ env.outcome = "instantiation-error") =>
       buildResult.chain = <<<<"instantiation failed">>>>
  /\ InitFailed =>
       /\ ~built.snapshotRan
       /\ ~buildResult.ok
       /\ buildResult.component = NoComponent

C14_Witness ==
  /\ InitReturnedErr
  /\ opts.js_source = "throws"
  /\ env.stdout # <<>>
  /\ env.stderr # <<>>

\* what the last init call did after the flag
LastTrace(before, after) == SubSeq(after, Len(before) + 1, Len(after))

\* C15: init returns Ok only after the source was evaluated without error and
\* then the adapter state and the preopen table were reset, in this order; a
\* failed evaluation is returned as Err(display(err)) of the engine error.
C15_InitOrder ==
  [][(initCalls' = initCalls + 1 /\ ~JS_EVALUATED) =>
       \E js \in Sources :
         /\ LastTrace(initLog, initLog')[1] = Evaluated(js)
         /\ IF initResults'[Len(initResults')].ok
            THEN /\ ~EvalFails(js)
                 /\ LastTrace(initLog, initLog') =
                      <<Evaluated(js), <<"reset_adapter_state">>, <<"__wasilibc_reset_preopens">>>>
            ELSE /\ EvalFails(js)
                 /\ LastTrace(initLog, initLog') = <<Evaluated(js)>>
                 /\ initResults'[Len(initResults')] = Err(display(EngineError(js)))]_vars

\* C15 as amended: a failed evaluation is returned as
\* Err("Failed to evaluate JavaScript: " followed by the debug rendering of
\* the engine error).
C15_InitOrderAmended ==
  [][(initCalls' = initCalls + 1 /\ ~JS_EVALUATED) =>
       \E js \in Sources :
         /\ LastTrace(initLog, initLog')[1] = Evaluated(js)
         /\ IF initResults'[Len(initResults')].ok
            THEN /\ ~EvalFails(js)
                 /\ LastTrace(initLog, initLog') =
                      <<Evaluated(js), <<"reset_adapter_state">>, <<"__wasilibc_reset_preopens">>>>
            ELSE /\ EvalFails(js)
                 /\ LastTrace(initLog, initLog') = <<Evaluated(js)>>
                 /\ initResults'[Len(initResults')] =
                      Err(<<"Failed to evaluate JavaScript: ">> \o debug(EngineError(js)))]_vars

C15_Witness ==
  /\ initCalls = 1
  /\ LastResult = Ok
  /\ Len(initLog) = 3
  /\ initLog[1] = Evaluated("empty")

\* a step in which call_import returns to the guest
ImportReturns == InFlight /\ TopFrame.kind = "import" /\ Len(frames') = Len(frames) - 1

\* C16: call_import returns the top of the stack of its context, or undefined
\* when the stack is empty: the guest receives the value the dispatch pushed
\* for an import with a result, and undefined for an import without one.
C16_ImportReturnValue ==
  [][ImportReturns =>
       /\ guestGot' = (IF Depth(TopFrame.cx) > 0 THEN Top(TopFrame.cx) ELSE Undefined)
       /\ IF HasResult(FrameFunc(TopFrame))
          THEN guestGot' \in {JsNum(v) : v \in HostResults}
          ELSE guestGot' = Undefined]_vars

\* C17: a step acts on the stack of the innermost context only; the stack of
\* an export's context is empty while its guest function runs; the context of
\* an import call holds nothing but the arguments of that call not popped yet.
C17_ContextsIsolated ==
  /\ [][\A i \in 1..Len(frames) :
          (i < Len(frames) /\ i <= Len(frames')) => frames'[i] = frames[i]]_vars
  /\ [](\A i \in ExportFrames : frames[i].st = "running" => frames[i].cx.stack = <<>>)
  /\ [](\A i \in ImportFrames :
          frames[i].st \in {"before", "popping"} =>
            frames[i].cx.stack =
              Reverse(SubSeq(frames[i].ins, Len(frames[i].seen) + 1, Len(frames[i].ins))))

C17_Witness ==
  /\ Len(frames) = 2
  /\ frames[1].seen # <<>>
  /\ frames[2].st = "popping"
  /\ frames[2].cx.stack # <<>>

(***************************************************************************)
(* The global object after register_imports.                               *)
(***************************************************************************)
Registered == WIT # NoWit /\ fatal = NoPanic
QualifiedNames(w) == InterfaceNames(w) \ {NoInterface}
BareKey(iface) == <<iface[1]>>
FuncsOf(w, iface) == {f \in SeqRange(w.imports) : f.interface = iface}
Has(obj, key, v) == key \in DOMAIN obj /\ obj[key] = v

\* C18: after initialize every qualified interface is on the global object
\* under its full key and under its bare key, both bound to the same interface
\* object, which holds one callable per import function of the interface under
\* the lower-camel-case name; an import function without an interface is a
\* global itself.
C18_InterfaceAliases ==
  Registered =>
    LET w == Worlds[WIT]
    IN /\ \A iface \in QualifiedNames(w) :
            /\ iface \in DOMAIN globals
            /\ BareKey(iface) \in DOMAIN globals
            /\ globals[iface] = globals[BareKey(iface)]
            /\ globals[iface].k = "obj"
            /\ \A f \in FuncsOf(w, iface) :
                 Has(globals[iface].f, to_lower_camel_case(f.name), JsImportFn(f.index))
       /\ \A f \in FuncsOf(w, NoInterface) :
            Has(globals, to_lower_camel_case(f.name), JsImportFn(f.index))

\* the state the counterexample of C18 ends in: two versions of one interface
\* are registered and the bare key is bound to the object of one of them
C18_TwoVersions ==
  /\ Registered
  /\ \E a, b \in QualifiedNames(Worlds[WIT]) :
       /\ a # b
       /\ BareKey(a) = BareKey(b)
       /\ globals[BareKey(a)] = globals[a]
       /\ globals[BareKey(b)] # globals[b]

\* the enums partition_imports keeps, and the object of one on the globals
RegisteredEnums(w) == {e \in SeqRange(w.enums) : e.interface # NoInterface}
EnumOnGlobals(e) == globals[e.interface].f[to_upper_camel_case(e.name)].f
NameKeys(obj) == {x \in DOMAIN obj : obj[x].k = "num"}
IndexKeys(obj) == {x \in DOMAIN obj : obj[x].k = "str"}

\* C19: in every enum object on the globals each declared case has exactly one
\* name key, bound to its declaration index; distinct cases have distinct
\* indices; every index 0..n-1 has an entry bound to the name of its case.
C19_EnumBijective ==
  Registered =>
    \A e \in RegisteredEnums(Worlds[WIT]) :
      LET E == EnumOnGlobals(e)
          n == Len(e.names)
      IN /\ \A i \in 1..n :
              /\ Has(E, to_upper_camel_case(e.names[i]), JsNum(i - 1))
              /\ Cardinality({x \in NameKeys(E) : E[x] = JsNum(i - 1)}) = 1
              /\ Has(E, IndexKey(i - 1), JsStr(KebabString(e.names[i])))
         /\ Cardinality(NameKeys(E)) = n
         /\ Cardinality(IndexKeys(E)) = n
         /\ {E[x].n : x \in NameKeys(E)} = 0..(n - 1)

C19_Witness ==
  /\ Registered
  /\ \E e \in RegisteredEnums(Worlds[WIT]) :
       /\ Len(e.names) = 3
       /\ Has(EnumOnGlobals(e), <<"A", "B", "c">>, JsNum(1))
       /\ Has(EnumOnGlobals(e), <<"2">>, JsStr(<<"a", "b", "c">>))

(***************************************************************************)
(* Naming.                                                                 *)
(***************************************************************************)
\* kebab-case identifiers of one or two words
KebabWords == {<<"a">>, <<"b">>, <<"a", "b">>, <<"b", "a">>, <<"a", "a">>}
KebabNames == {<<u>> : u \in KebabWords} \cup {<<u, v>> : u, v \in KebabWords}

NamingInjective ==
  \A a, b \in KebabNames :
    a # b => /\ to_lower_camel_case(a) # to_lower_camel_case(b)
             /\ to_upper_camel_case(a) # to_upper_camel_case(b)
             /\ to_lower_camel_case(a) # to_upper_camel_case(b)

NamingExamples ==
  /\ to_lower_camel_case(<<<<"s", "a", "f", "e">>, <<"d", "i", "v">>>>)
       = <<"s", "a", "f", "e", "D", "i", "v">>
  /\ to_lower_camel_case(<<<<"f", "i", "r", "s", "t">>, <<"n", "a", "m", "e">>>>)
       = <<"f", "i", "r", "s", "t", "N", "a", "m", "e">>
  /\ to_upper_camel_case(<<<<"r", "e", "d">>, <<"b", "l", "u", "e">>>>)
       = <<"R", "e", "d", "B", "l", "u", "e">>

UpperNames(names) == {to_upper_camel_case(names[i]) : i \in 1..Len(names)}
ExportKey(f) == to_lower_camel_case(Exports[f.func].name)

\* what one interface declares: the JavaScript names of its functions and
\* types, how many declarations it has, and the case names of every type
Declared(i) ==
  [ keys |-> {to_lower_camel_case(f.name) : f \in SeqRange(i.funcs)}
             \cup {to_upper_camel_case(t.name) : t \in SeqRange(i.flags) \cup SeqRange(i.enums)},
    count |-> Len(i.funcs) + Len(i.flags) + Len(i.enums),
    types |-> {[key |-> to_upper_camel_case(t.name), names |-> UpperNames(t.names),
                count |-> Len(t.names)] : t \in SeqRange(i.flags) \cup SeqRange(i.enums)} ]

Declarations ==
  [w \in 1..Len(Worlds) |->
     [iface \in QualifiedNames(Worlds[w]) |-> Declared(partition_imports(Worlds[w], iface))]]

GlobalFuncs ==
  [w \in 1..Len(Worlds) |->
     {to_lower_camel_case(f.name) : f \in FuncsOf(Worlds[w], NoInterface)}]

\* no two declarations of an interface, and no two cases of a type, share a name
NamingDistinct ==
  \A w \in 1..Len(Worlds) : \A iface \in DOMAIN Declarations[w] :
    LET d == Declarations[w][iface]
    IN /\ Cardinality(d.keys) = d.count
       /\ \A t \in d.types : Cardinality(t.names) = t.count

\* C20: a declared kebab-case identifier has one JavaScript name: lower camel
\* case for functions and record fields (the export is looked up under it),
\* upper camel case for types, enum cases and flags; the keys of an interface
\* object are the names of its declarations, no two of them equal.
C20_Naming ==
  /\ NamingExamples
  /\ NamingInjective
  /\ NamingDistinct
  /\ Registered =>
       /\ \A iface \in DOMAIN Declarations[WIT] :
            LET d == Declarations[WIT][iface]
                O == globals[iface].f
            IN /\ DOMAIN O = d.keys
               /\ \A t \in d.types : NameKeys(O[t.key].f) = t.names
       /\ GlobalFuncs[WIT] \subseteq DOMAIN globals
  /\ \A n \in ExportFrames :
       frames[n].st = "running" => Has(globals, ExportKey(frames[n]), JsGuestFn(ExportKey(frames[n])))
  /\ (InFlight /\ fatal = "Failed to get function") => ExportKey(TopFrame) \notin DOMAIN globals

C20_Witness ==
  /\ Registered
  /\ WIT = 1
  /\ DOMAIN globals[RandomIface].f =
       {<<"g", "e", "t", "R", "a", "n", "d", "o", "m">>, <<"P", "e", "r", "m", "s">>,
        <<"C", "o", "l", "o", "r">>}
  /\ \E n \in ExportFrames :
       /\ frames[n].st = "running"
       /\ ExportKey(frames[n]) = <<"s", "a", "f", "e", "D", "i", "v">>

(***************************************************************************)
(* The stages of componentize.                                             *)
(***************************************************************************)
StageOrder ==
  <<"resolve", "adapter", "metadata", "link", "instantiate", "init", "snapshot", "stub">>
IsPrefix(p, q) == Len(p) <= Len(q) /\ SubSeq(q, 1, Len(p)) = p
Ran(name) == \E i \in 1..Len(built.ran) : built.ran[i] = name
Last(q) == q[Len(q)]

\* the function a stage belongs to
Owner(name) ==
  IF name \in {"instantiate", "init", "snapshot"} THEN "wizer_init"
  ELSE IF name = "stub" THEN "stub_wasi_imports"
  ELSE name

\* a call of componentize, as opposed to a call of stub_wasi_imports alone
Componentizing == stage = "start" \/ (built.ran # <<>> /\ built.ran[1] = "resolve")

\* the bytes the snapshot step returns for the options of the call
SnapshotBytes == [Component("component", opts.imports) EXCEPT !.snapshot = TRUE]

\* C22: componentize runs resolve, adapter, metadata, link, instantiate, init,
\* snapshot, stub in this order and returns; a stage runs only if every
\* earlier one succeeded; the stub stage runs only after a successful snapshot
\* and only when stub_wasi is set; with stub_wasi false the bytes of the
\* snapshot are returned as they are.
C22_StageOrder ==
  /\ [][stage = "start" => built'.ran = <<"resolve">>]_vars
  /\ [][stage \notin {"failed", "done"}]_vars
  /\ [](Componentizing =>
          /\ IsPrefix(built.ran, StageOrder)
          /\ stage = "failed" => buildResult.at = Owner(Last(built.ran))
          /\ Ran("stub") => (opts.stub_wasi /\ Ran("snapshot") /\ component.snapshot
                             /\ env.outcome = "runs")
          /\ stage = "done" =>
               /\ buildResult.ok
               /\ built.ran = (IF opts.stub_wasi THEN StageOrder
                               ELSE SubSeq(StageOrder, 1, Len(StageOrder) - 1))
               /\ ~opts.stub_wasi => buildResult.component = SnapshotBytes
          /\ (stage # "done" /\ buildResult # <<>>) => ~buildResult.ok)

C22_Witness ==
  /\ stage = "done"
  /\ ~opts.stub_wasi
  /\ built.ran = <<"resolve", "adapter", "metadata", "link", "instantiate", "init", "snapshot">>
  /\ wasi_imports(buildResult.component) # {}

(***************************************************************************)
(* The command line: main of the binary, and cli::run behind the NAPI      *)
(* entry point run_cli.                                                    *)
(***************************************************************************)
Entries == {"main", "run_cli"}
Argvs == {"ok", "invalid", "help"}

NoResult == [ok |-> FALSE, clap |-> FALSE, kind |-> "none", msg |-> ""]
CliOk == [ok |-> TRUE, clap |-> FALSE, kind |-> "ok", msg |-> ""]
CliErr(kind, msg) == [ok |-> FALSE, clap |-> FALSE, kind |-> kind, msg |-> msg]
ClapErr(kind) == [ok |-> FALSE, clap |-> TRUE, kind |-> kind, msg |-> "usage"]

WitNotFound == "WIT file/directory not found: "
JsNotFound == "JavaScript file not found: "
NotFound == {WitNotFound, JsNotFound}

NoExit == [kind |-> "none", code |-> 0, resolved |-> FALSE, value |-> FALSE]
ProcessExit(code) == [kind |-> "process", code |-> code, resolved |-> FALSE, value |-> FALSE]
Resolved(value) == [kind |-> "promise", code |-> 0, resolved |-> TRUE, value |-> value]
Rejected == [kind |-> "promise", code |-> 0, resolved |-> FALSE, value |-> FALSE]

\* CliArgs::try_parse_from / Args::parse on the three kinds of argument lists
try_parse_from(argv) ==
  IF argv = "ok" THEN CliOk
  ELSE IF argv = "help" THEN ClapErr("DisplayHelp")
  ELSE ClapErr("UnknownArgument")

\* the two checks with the JavaScript path looked at first
check_inputs_js_first(wit_exists, js_exists) ==
  IF ~js_exists THEN CliErr("bail", JsNotFound)
  ELSE IF ~wit_exists THEN CliErr("bail", WitNotFound)
  ELSE CliOk

\* if !args.wit.exists() { bail } if !args.js.exists() { bail }
check_inputs(wit_exists, js_exists) ==
  IF ~wit_exists THEN CliErr("bail", WitNotFound)
  ELSE IF ~js_exists THEN CliErr("bail", JsNotFound)
  ELSE CliOk

\* run_cli handing the error of cli::run to its caller
run_cli_rejects(r) == IF r.ok THEN Resolved(TRUE) ELSE Rejected

\* run_cli: the boolean the promise resolves to
run_cli(r) ==
  IF r.ok THEN Resolved(TRUE)
  ELSE IF r.clap THEN Resolved(r.kind \in {"DisplayHelp", "DisplayVersion"})
  ELSE Resolved(FALSE)

\* fn main() -> Result<()>: the exit code of the process
main_exit(r) == IF r.ok THEN ProcessExit(0) ELSE ProcessExit(1)
\* Args::parse() ends the process itself on an error
clap_exit(r) == IF r.kind = "DisplayHelp" THEN ProcessExit(0) ELSE ProcessExit(2)

InitCli ==
  /\ ty = NoType
  /\ val = 0
  /\ base = <<>>
  /\ cx = QjsCallContext
  /\ phase = "cli"
  /\ out = NoOut
  /\ disc = -1
  /\ op = NoOp
  /\ steps = 0
  /\ WIT = 0
  /\ globals = <<>>
  /\ registerCount = 0
  /\ initializeCalls = 0
  /\ initializeArg = 0
  /\ JS_EVALUATED = FALSE
  /\ evalCount = 0
  /\ initCalls = 0
  /\ initResults = <<>>
  /\ initLog = <<>>
  /\ frames = <<>>
  /\ nextCx = 0
  /\ deferLog = <<>>
  /\ freed = <<>>
  /\ fatal = "none"
  /\ guestGot = [k |-> "undefined"]
  /\ CtxIdle
  /\ repeat = NoRepeat
  /\ built = NoBuild
  /\ buildResult = <<>>
  /\ stage = "none"
  /\ component = [kind |-> "none", imports |-> {}, exports |-> {}, snapshot |-> FALSE]
  /\ \E js \in {"good", "throws"}, stub \in BOOLEAN, fails \in FailPoints :
       opts = [imports |-> {WasiPrefix, <<"l", "o", "g">>}, js_source |-> js,
               stub_wasi |-> stub, fails |-> fails]
  /\ env \in [outcome : Outcomes, stdout : {<<>>}, stderr : {<<"log line">>}]
  /\ \E entry \in Entries, argv \in Argvs, we, je, jr, mi, wr \in BOOLEAN, f \in {"absent", "old"} :
       /\ (entry = "main" => ~mi)
       /\ cli = [entry |-> entry, argv |-> argv, wit_exists |-> we, js_exists |-> je,
                 js_reads |-> jr, minify |-> mi, writes |-> wr, file0 |-> f,
                 at |-> "parse", ran |-> <<>>, js_read |-> FALSE, file |-> f,
                 result |-> NoResult, exit |-> NoExit]

CliStep == UNCHANGED <<opts, env, component, buildResult, built, mvars, svars, cvars, repeat>>

Returns(r) == [cli EXCEPT !.result = r, !.at = "returned"]

\* the arguments are parsed
ParseArgs ==
  /\ cli.at = "parse"
  /\ LET r == try_parse_from(cli.argv)
         c == [cli EXCEPT !.ran = Append(@, "parse")]
     IN cli' = IF r.ok THEN [c EXCEPT !.at = "check"]
               ELSE IF cli.entry = "main"
               THEN [c EXCEPT !.result = r, !.at = "exited", !.exit = clap_exit(r)]
               ELSE [c EXCEPT !.result = r, !.at = "returned"]
  /\ UNCHANGED stage
  /\ CliStep

\* the two paths are looked up; main goes on to the WIT, cli::run to the
\* JavaScript file
CheckInputs ==
  /\ cli.at = "check"
  /\ LET r == check_inputs(cli.wit_exists, cli.js_exists)
         c == [cli EXCEPT !.ran = Append(@, "check")]
     IN IF ~r.ok
        THEN cli' = [c EXCEPT !.result = r, !.at = "returned"] /\ UNCHANGED stage
        ELSE IF cli.entry = "main"
        THEN cli' = [c EXCEPT !.at = "componentize"] /\ stage' = "start"
        ELSE cli' = [c EXCEPT !.at = "read"] /\ UNCHANGED stage
  /\ CliStep

\* fs::read_to_string(&args.js), in cli::run followed by the minifier
ReadJs ==
  /\ \/ cli.at = "read"
     \/ cli.at = "componentize" /\ cli.entry = "main" /\ stage = "embedded" /\ ~cli.js_read
  /\ LET c == [cli EXCEPT !.ran = Append(@, "read")]
     IN IF ~cli.js_reads
        THEN cli' = [c EXCEPT !.result = CliErr("context", "failed to read JS file: "),
                              !.at = "returned"]
             /\ UNCHANGED stage
        ELSE /\ cli' = [c EXCEPT !.js_read = TRUE, !.at = "componentize",
                                 !.ran = IF cli.minify THEN Append(@, "minify") ELSE @]
             /\ stage' = IF cli.entry = "main" THEN stage ELSE "start"
  /\ CliStep

\* a stage of componentize (in main: of the same stages written out)
CliBuild ==
  /\ cli.at = "componentize"
  /\ (cli.entry = "main" /\ stage = "embedded") => cli.js_read
  /\ NextBuild

\* componentize returned
BuildReturned ==
  /\ cli.at = "componentize"
  /\ stage \in {"done", "failed"}
  /\ cli' = IF stage = "done" THEN [cli EXCEPT !.at = "write"]
            ELSE Returns(CliErr("build", buildResult.at))
  /\ UNCHANGED stage
  /\ CliStep

\* fs::write(&args.output, &component)
WriteOutput ==
  /\ cli.at = "write"
  /\ LET c == [cli EXCEPT !.ran = Append(@, "write"), !.at = "returned"]
     IN cli' = IF cli.writes THEN [c EXCEPT !.file = "written", !.result = CliOk]
               ELSE [c EXCEPT !.result = CliErr("context", "failed to write output to ")]
  /\ UNCHANGED stage
  /\ CliStep

\* main returns to the runtime; run_cli resolves its promise
Exit ==
  /\ cli.at = "returned"
  /\ cli' = [cli EXCEPT !.at = "exited",
                        !.exit = IF cli.entry = "main" THEN main_exit(cli.result)
                                 ELSE run_cli(cli.result)]
  /\ UNCHANGED stage
  /\ CliStep

NextCli ==
  \/ ParseArgs
  \/ CheckInputs
  \/ ReadJs
  \/ CliBuild
  \/ BuildReturned
  \/ WriteOutput
  \/ Exit

SpecCli == InitCli /\ [][NextCli]_vars

Exited == cli.at = "exited"
Failed == Exited /\ ~cli.result.ok
NonZero == IF cli.entry = "main" THEN cli.exit.code # 0 ELSE (cli.exit.resolved /\ ~cli.exit.value)
CliRan(name) == \E i \in 1..Len(cli.ran) : cli.ran[i] = name

C25_RunCliBoolean ==
  (Exited /\ cli.entry = "run_cli") =>
     /\ cli.exit.kind = "promise"
     /\ cli.exit.resolved
     /\ cli.exit.value = (cli.result.ok \/ cli.argv = "help")

C25_Witness ==
  /\ Exited
  /\ cli.entry = "run_cli"
  /\ cli.argv = "invalid"
  /\ cli.result.clap
  /\ cli.exit = Resolved(FALSE)

(***************************************************************************)
(* Calls that run to their end: the adapter and the guest keep taking      *)
(* steps while one is possible.  A panic ends the instance, and no step    *)
(* follows it.                                                             *)
(***************************************************************************)
SpecFair == Init /\ [][Next]_vars /\ WF_vars(Next)

Registers(id) == id <= nextCx /\ deferLog[id] # <<>>
Released(id) == id <= nextCx /\ Dropped(id) /\ FreedOf(id) = Frees(id, deferLog[id])

\* C23: every allocation registered on a call context is released in the
\* end, whether the call returns or ends in a panic.
C23_DeferredReleased ==
  \A id \in 1..MaxCx : Registers(id) ~> Released(id)

\* the state the counterexample of C23 ends in: the instance panicked while a
\* context with registered allocations was alive
C23_Leaked ==
  /\ fatal # NoPanic
  /\ \E i \in 1..Len(frames) : frames[i].cx.deferred_deallocs # <<>>
  /\ freed = <<>>

\* no address occurs twice in a list of (address, layout) entries
Distinct(entries) ==
  \A i, j \in 1..Len(entries) : entries[i][1] = entries[j][1] => i = j

MaxCalls == 3

Guests == {"pure", "counting"}
KeyCount == <<"c", "o", "u", "n", "t">>
Count(g) == IF KeyCount \in DOMAIN g THEN g[KeyCount].n ELSE 0

\* the guest function runs: the value it returns and the global object after
GuestCall(guest, f, args, g) ==
  IF guest = "counting"
  THEN [result |-> JsNum(Count(g) + 1), globals |-> ObjSet(g, KeyCount, JsNum(Count(g) + 1))]
  ELSE [result |-> IF Len(args) = 2 THEN JsNum(args[1].n \div args[2].n) ELSE Undefined,
        globals |-> g]

\* the adapter lowers the arguments one by one
RECURSIVE PushAll(_, _)
PushAll(c, args) ==
  IF args = <<>> THEN c ELSE PushAll(push_u32(c, Head(args)).cx, Tail(args))

\* export_start, the pushes of the adapter, export_call, the pop of the
\* result, export_finish
call_export(guest, f, args, g) ==
  LET c0 == export_start(WIT, f)
      c1 == PushAll(c0, args)
      seen == export_call_args(c1)
      c2 == [c1 EXCEPT !.stack = export_call_stack(c1)]
      r == GuestCall(guest, f, seen, g)
      c3 == [c2 EXCEPT !.stack = @ \o export_call_result(Exports[f], r.result)]
      p == IF HasResult(Exports[f]) THEN pop_u32(c3) ELSE Ret(c3, 0)
  IN [call |-> [func |-> f, args |-> args, cx0 |-> c0, seen |-> seen, result |-> p.ret,
                panic |-> p.panic, left |-> p.cx],
      globals |-> r.globals]

InitRepeat ==
  /\ MarshalIdle
  /\ WIT = 3
  /\ globals = DefineExports(register_imports(<<>>, Worlds[3], <<>>, 1), 1)
  /\ registerCount = 1
  /\ initializeCalls = 1
  /\ initializeArg = 3
  /\ JS_EVALUATED = TRUE
  /\ evalCount = 1
  /\ initCalls = 1
  /\ initResults = <<init_js(FALSE, "good").result>>
  /\ initLog = init_js(FALSE, "good").trace
  /\ frames = <<>>
  /\ nextCx = 0
  /\ deferLog = <<>>
  /\ freed = <<>>
  /\ fatal = "none"
  /\ guestGot = [k |-> "undefined"]
  /\ CtxIdle
  /\ BuildIdle
  /\ repeat \in [guest : Guests, calls : {<<>>}]

\* one whole call of an export
RepeatCall ==
  /\ Len(repeat.calls) < MaxCalls
  /\ \E f \in 1..Len(Exports) :
       \E args \in [1..Len(Exports[f].params) -> HostNums] :
         LET r == call_export(repeat.guest, f, args, globals)
         IN /\ repeat' = [repeat EXCEPT !.calls = Append(@, r.call)]
            /\ globals' = r.globals
  /\ UNCHANGED <<WIT, registerCount, initializeCalls, initializeArg, JS_EVALUATED, evalCount,
                 initCalls, initResults, initLog, frames, nextCx, deferLog, freed, fatal,
                 guestGot, mvars, cvars, bvars>>

NextRepeat == RepeatCall

SpecRepeat == InitRepeat /\ [][NextRepeat]_vars

Calls == IF repeat = NoRepeat THEN <<>> ELSE repeat.calls
FreshContexts ==
  \A i \in 1..Len(Calls) :
    /\ Calls[i].cx0 = [stack |-> <<>>, temp_strings |-> <<>>, deferred_deallocs |-> <<>>]
    /\ Calls[i].seen = [j \in 1..Len(Calls[i].args) |-> JsNum(Calls[i].args[j])]
SameResults ==
  \A i, j \in 1..Len(Calls) :
    (Calls[i].func = Calls[j].func /\ Calls[i].args = Calls[j].args) =>
       Calls[i].result = Calls[j].result

\* C26: every export_start returns a context with an empty stack, no
\* temporary strings and no deferred frees, the guest sees the arguments of
\* this call only, and the same export called with the same arguments returns
\* the same result every time.
C26_RepeatedCalls == FreshContexts /\ SameResults

\* C26 as amended: the result is the same every time for a guest function
\* that is a function of its arguments; what a guest function keeps in
\* JavaScript globals is visible to the next call.
C26_RepeatedCallsAmended ==
  /\ FreshContexts
  /\ (repeat # NoRepeat /\ repeat.guest = "pure") => SameResults

C26_Witness ==
  /\ Len(Calls) = 3
  /\ repeat.guest = "pure"
  /\ Calls[1].func = 1 /\ Calls[1].args = <<2, 1>> /\ Calls[1].result = 2
  /\ Calls[2].func = 1 /\ Calls[2].args = <<1, 2>> /\ Calls[2].result = 0
  /\ Calls[3] = Calls[1]

(***************************************************************************)
(* pop_list on the array a list value was lowered to.                      *)
(***************************************************************************)
\* the values the next n pops take from the stack, first pop first
NextPops(c, n) == [i \in 1..n |-> c.stack[Depth(c) + 1 - i]]
\* the stack below the top n values
Below(c, n) == SubSeq(c.stack, 1, Depth(c) - n)

PopListDelivers(c) ==
  LET arr == Top(c).e
      r == pop_list(c)
  IN /\ r.panic = NoPanic
     /\ r.ret = Len(arr)
     /\ Depth(r.cx) = Depth(c) + Len(arr) - 1
     /\ NextPops(r.cx, Len(arr)) = arr
     /\ Below(r.cx, Len(arr)) = Below(c, 1)

\* C27: pop_list takes the array from the top of the stack, pushes its len
\* elements in reverse index order and returns len: the next len pops deliver
\* the elements in index order, the depth changes by len-1 and the values
\* below are untouched.  For a list of lists, popping the inner list on top
\* does the same for the first row and leaves the other rows as they were,
\* so the whole value is delivered row by row.
C27_PopListOrder ==
  /\ (phase = "pushed" /\ ty.t = "list" /\ out.panic = NoPanic) =>
        /\ PopListDelivers(cx)
        /\ Below(cx, 1) = base
        /\ (ty.of.t = "list" /\ Len(val) > 0) =>
              LET outer == pop_list(cx).cx
              IN /\ PopListDelivers(outer)
                 /\ NextPops(pop_list(outer).cx, Len(val[1])) =
                      [i \in 1..Len(val[1]) |-> NewNumber(val[1][i])]
  /\ (phase = "popped" /\ ty.t = "list") =>
        /\ out.panic = NoPanic
        /\ out.ret = val
        /\ cx.stack = base

C27_Witness ==
  /\ phase = "popped"
  /\ ty = ListOf(ListOf(Scalar("u32")))
  /\ val = <<<<0, 7>>, <<MaxI32, 0>>>>
  /\ out.ret = val
  /\ base # <<>>

(***************************************************************************)
(* The option operations one at a time.                                    *)
(***************************************************************************)
\* the step of the operation called name
Did(name) == phase = "ops" /\ steps' = steps + 1 /\ op'.name = name
IsNone(v) == v.k = "null" \/ v.k = "undefined"

PopOptionStep ==
  (Did("pop_option") /\ Depth(cx) > 0) =>
     /\ out'.panic = NoPanic
     /\ IF IsNone(Top(cx))
        THEN out'.ret = 0 /\ cx'.stack = Below(cx, 1)
        ELSE out'.ret = 1 /\ cx'.stack = cx.stack
PushOptionStep ==
  Did("push_option") =>
     /\ out'.panic = NoPanic
     /\ cx'.stack = cx.stack \/ cx'.stack = Append(cx.stack, Null)
PushOptionAt(c) ==
  /\ push_option(c, FALSE).panic = NoPanic
  /\ push_option(c, FALSE).cx.stack = Append(c.stack, Null)
  /\ push_option(c, TRUE).panic = NoPanic
  /\ push_option(c, TRUE).cx.stack = c.stack

\* C28: pop_option returns 0 and takes the top value off when it is null or
\* undefined; otherwise it returns 1 and the stack is as it was.  push_option
\* with is_some = false pushes one null, with is_some = true it leaves the
\* stack as it is.
C28_OptionOps ==
  /\ [][PopOptionStep]_vars
  /\ [][PushOptionStep]_vars
  /\ [](phase = "ops" => PushOptionAt(cx))

C28_Witness ==
  /\ phase = "ops"
  /\ steps = 1
  /\ op.name = "pop_option"
  /\ op.before = 1
  /\ out.ret = 0
  /\ base = <<Undefined>>
  /\ cx.stack = <<>>

(***************************************************************************)
(* push_result and push_variant one at a time.                             *)
(***************************************************************************)
\* the object {tag} or {tag, val}
IsTagged(v, tag, withVal, payload) ==
  /\ v.k = "obj"
  /\ DOMAIN v.f = (IF withVal THEN {KeyTag, KeyVal} ELSE {KeyTag})
  /\ v.f[KeyTag] = tag
  /\ withVal => v.f[KeyVal] = payload

\* what the push of an arm does to the context c: has says whether the WIT
\* type gives the arm a payload
PushesArm(c, r, has, tag) ==
  LET n == IF has THEN 1 ELSE 0
  IN Depth(c) >= n =>
       /\ r.panic = NoPanic
       /\ Depth(r.cx) = Depth(c) + 1 - n
       /\ Below(r.cx, 1) = Below(c, n)
       /\ IsTagged(Top(r.cx), tag, has, IF has THEN Top(c) ELSE Undefined)

PushResultAt(c) ==
  \A t \in OpResults, is_err \in BOOLEAN :
    PushesArm(c, push_result(c, t, is_err),
              (IF is_err THEN t.err ELSE t.ok) # NoType,
              JsStr(IF is_err THEN StrErr ELSE StrOk))
PushVariantAt(c) ==
  \A t \in OpVariants, tag \in 0..2 :
    PushesArm(c, push_variant(c, t, tag),
              tag < Len(t.cases) /\ t.cases[tag + 1].ty # NoType,
              NewNumber(tag))

\* a step of push_result or push_variant: one object more, one payload less
\* when the arm has one
PushArmStep ==
  ((Did("push_result") \/ Did("push_variant")) /\ Depth(cx) >= op'.need) =>
     /\ out'.panic = NoPanic
     /\ Depth(cx') = Depth(cx) + 1 - op'.need
     /\ Below(cx', 1) = Below(cx, op'.need)
     /\ Top(cx').k = "obj"
     /\ (KeyVal \in DOMAIN Top(cx').f) = (op'.need = 1)
     /\ (Did("push_variant") /\ Top(cx').f[KeyTag].n >= Len(ShapeCases)) =>
           cx'.stack = Append(cx.stack, TagObject(Top(cx').f[KeyTag], FALSE, Undefined))

TopTagged(c, k) ==
  /\ Depth(c) > 0
  /\ Top(c).k = "obj"
  /\ KeyTag \in DOMAIN Top(c).f
  /\ Top(c).f[KeyTag].k = k
\* its val, undefined when it has none
ValOf(v) == IF KeyVal \in DOMAIN v.f THEN v.f[KeyVal] ELSE Undefined

PopResultStep ==
  (Did("pop_result") /\ TopTagged(cx, "str")) =>
     /\ out'.panic = NoPanic
     /\ (out'.ret = 0) = (Top(cx).f[KeyTag].s = StrOk)
     /\ (out'.ret = 1) = (Top(cx).f[KeyTag].s # StrOk)
     /\ cx'.stack = Append(Below(cx, 1), ValOf(Top(cx)))
PopVariantStep ==
  (Did("pop_variant") /\ TopTagged(cx, "num") /\ Top(cx).f[KeyTag].n >= 0) =>
     /\ out'.panic = NoPanic
     /\ out'.ret = Top(cx).f[KeyTag].n
     /\ cx'.stack = Append(Below(cx, 1), ValOf(Top(cx)))

\* C30: pop_result takes an object {tag, val?} with val present, undefined or
\* absent, returns 0 exactly when the tag is "ok" and 1 for every other tag,
\* and puts one value in the place of the object: val, or undefined when the
\* object has none.  pop_variant does the same and returns the numeric tag
\* as it is.
C30_PopArms ==
  /\ [][PopResultStep]_vars
  /\ [][PopVariantStep]_vars

C30_Witness ==
  /\ phase = "ops"
  /\ steps = 1
  /\ op.name = "pop_result"
  /\ base = <<TagObject(JsStr(StrErr), FALSE, Undefined)>>
  /\ out.panic = NoPanic
  /\ out.ret = 1
  /\ cx.stack = <<Undefined>>

(***************************************************************************)
(* Records: the object a record value is lowered to, and pop_record on it. *)
(***************************************************************************)
\* the keys of the fields first-name and ok
PointKeys == <<<<"f", "i", "r", "s", "t", "N", "a", "m", "e">>, <<"o", "k">>>>

RecordOrder(c, fields, v, below) ==
  LET n == Len(fields)
      vals == [i \in 1..n |-> Guest(fields[i].ty, v[i])]
      before == [QjsCallContext EXCEPT !.stack = below \o vals]
      pushed == push_record(before, RecordOf(fields))
      popped == pop_record(c, RecordOf(fields))
  IN /\ pushed.panic = NoPanic
     /\ pushed.cx.stack = c.stack
     /\ Depth(pushed.cx) = Depth(before) + 1 - n
     /\ c.stack = Append(below, Top(c))
     /\ Top(c).k = "obj"
     /\ DOMAIN Top(c).f = {PointKeys[i] : i \in 1..n}
     /\ \A i \in 1..n : Top(c).f[PointKeys[i]] = vals[i]
     /\ popped.panic = NoPanic
     /\ NextPops(popped.cx, n) = vals
     /\ Below(popped.cx, n) = below

\* C31: push_record takes the n values pushed for the fields and builds one
\* object in which the i-th declared field, under its lower-camel-case key,
\* holds the i-th value pushed (depth change 1-n); pop_record puts the n field
\* values in the place of the object, in reverse declaration order, so the
\* next n pops deliver the fields in declaration order.
C31_RecordFieldOrder ==
  /\ (phase = "pushed" /\ ty = RecordOf(PointFields)) =>
        (out.panic = NoPanic /\ RecordOrder(cx, PointFields, val, base))
  /\ (phase = "popped" /\ ty.t = "record") =>
        (out.panic = NoPanic /\ out.ret = val /\ cx.stack = base)

C31_Witness ==
  /\ phase = "popped"
  /\ ty = RecordOf(PointFields)
  /\ val = <<7, TRUE>>
  /\ out.ret = <<7, TRUE>>
  /\ base # <<>>
  /\ cx.stack = base

(***************************************************************************)
(* The flags objects on the globals.                                       *)
(***************************************************************************)
\* the bits set in a non-negative i32, and in a number of the u32 range
BitsOfInt(m) == {b \in 0..(FlagBits - 2) : (m \div Pow2(b)) % 2 = 1}
BitsOfNumber(v) == IF IsWide(v) THEN BitsOfInt(v.above) \cup {FlagBits - 1} ELSE BitsOfInt(v.n)
\* the host's u32 with the bits of S set: their bitwise OR
RECURSIVE MaskOf(_)
MaskOf(S) ==
  IF S = {} THEN 0
  ELSE IF FlagBits - 1 \in S THEN MinI32 + MaskOf(S \ {FlagBits - 1})
  ELSE LET b == CHOOSE x \in S : TRUE IN Pow2(b) + MaskOf(S \ {b})
InU32(v) == v.k = "num" /\ (IsWide(v) \/ v.n >= 0)

RegisteredFlags(w) == {t \in SeqRange(w.flags) : t.interface # NoInterface}
FlagsOnGlobals(t) == globals[t.interface].f[to_upper_camel_case(t.name)].f
FlagValue(t, i) == FlagsOnGlobals(t)[to_upper_camel_case(t.names[i])]
\* the sets of flags a mask is checked for: every pair and the whole type
FlagSets(n) == {{i, j} : i, j \in 0..(n - 1)} \cup {0..(n - 1)}

\* C32: in every flags object on the globals the i-th declared flag (from 0)
\* is found under its upper-camel-case name with the value 2^i: distinct flags
\* have distinct single-bit values, the mask of a set of flags is their
\* bitwise OR and fits 32 bits, and push_flags hands the guest that mask as a
\* number of the u32 range, for a flags type of any size up to the 32 flags a
\* mask can hold.
C32_FlagBits ==
  Registered =>
    \A t \in RegisteredFlags(Worlds[WIT]) :
      LET F == FlagsOnGlobals(t)
          n == Len(t.names)
      IN /\ n <= FlagBits
         /\ Cardinality(DOMAIN F) = n
         /\ \A i \in 1..n :
              /\ to_upper_camel_case(t.names[i]) \in DOMAIN F
              /\ InU32(FlagValue(t, i))
              /\ BitsOfNumber(FlagValue(t, i)) = {i - 1}
              /\ \A j \in 1..n : (FlagValue(t, i) = FlagValue(t, j)) = (i = j)
         /\ \A S \in FlagSets(n) :
              LET pushed == push_flags(QjsCallContext, MaskOf(S))
              IN /\ InU32(Top(pushed.cx))
                 /\ BitsOfNumber(Top(pushed.cx)) = S
                 /\ BitsOfNumber(Top(pushed.cx)) =
                      UNION {BitsOfNumber(FlagValue(t, i + 1)) : i \in S}
                 /\ pop_flags(pushed.cx).panic = NoPanic
                 /\ pop_flags(pushed.cx).ret = MaskOf(S)

C32_Witness ==
  /\ Registered
  /\ WIT = 2
  /\ Len(Worlds[2].flags[1].names) = 32
  /\ FlagsOnGlobals(Worlds[2].flags[1])[<<"F", "F", "x">>] = JsWide(0)
  /\ FlagsOnGlobals(Worlds[2].flags[1])[<<"F", "E", "x">>] = JsNum(1073741824)
  /\ FlagsOnGlobals(Worlds[2].flags[1])[<<"F", "A">>] = JsNum(1)

(***************************************************************************)
(* The integer types of at most 32 bits.                                   *)
(***************************************************************************)
IntTypes == {"u8", "s8", "u16", "s16", "u32", "s32"}
\* the number of lo..lo+m-1 that differs from n by a multiple of m
Reduced(n, m, lo) == CHOOSE r \in lo..(lo + m - 1) : r % m = n % m

\* the narrow pops on a context whose top is the number n of the i32 range
NarrowPops(c, n) ==
  /\ pop_u8(c).panic = NoPanic /\ pop_u8(c).ret = Reduced(n, 256, 0)
  /\ pop_s8(c).panic = NoPanic /\ pop_s8(c).ret = Reduced(n, 256, -128)
  /\ pop_u16(c).panic = NoPanic /\ pop_u16(c).ret = Reduced(n, 65536, 0)
  /\ pop_s16(c).panic = NoPanic /\ pop_s16(c).ret = Reduced(n, 65536, -32768)
  /\ pop_u8(c).cx.stack = Below(c, 1)
  /\ pop_s16(c).cx.stack = Below(c, 1)

\* C33: a value of u8, s8, u16, s16, u32 or s32 that is pushed and popped
\* comes back as it was; pop_u8, pop_s8, pop_u16 and pop_s16 applied to a
\* number of the i32 range, inside the target range or not, return it reduced
\* modulo 2^8 or 2^16 (into the signed range for s8 and s16) and do not fail.
C33_IntRoundTrip ==
  /\ (phase = "popped" /\ ty.t \in IntTypes) =>
        (out.panic = NoPanic /\ out.ret = val /\ cx.stack = base)
  /\ (phase = "pushed" /\ out.panic = NoPanic /\ Depth(cx) > 0 /\ IsI32(Top(cx))) =>
        NarrowPops(cx, Top(cx).n)

C33_Witness ==
  /\ phase = "popped"
  /\ ty = Scalar("u32")
  /\ val = -1
  /\ out.ret = -1
  /\ out.panic = NoPanic

(***************************************************************************)
(* Handles.                                                                *)
(***************************************************************************)
HandleTypes == {"own", "borrow", "future", "stream"}

\* C34: for every handle h of the u32 range and every handle kind, the push
\* puts the non-negative number h on the stack, the same number whatever the
\* kind, and the matching pop returns h.
C34_HandleRoundTrip ==
  /\ (phase = "pushed" /\ ty.t \in HandleTypes) =>
        /\ out.panic = NoPanic
        /\ cx.stack = Append(base, NewNumberU32(val))
        /\ InU32(Top(cx))
        /\ \A kind \in HandleTypes : Guest(Scalar(kind), val) = Top(cx)
  /\ (phase = "popped" /\ ty.t \in HandleTypes) =>
        (out.panic = NoPanic /\ out.ret = val /\ cx.stack = base)

\* the state the counterexample of C34 ends in: the future handle 2^31 is on
\* the stack as a negative number
C34_NegativeHandle ==
  /\ phase = "pushed"
  /\ ty = Scalar("future")
  /\ val = MinI32
  /\ Top(cx) = JsNum(MinI32)
  /\ Guest(Scalar("own"), val) = JsWide(0)

(***************************************************************************)
(* The stack after a value was pushed and popped again.                    *)
(***************************************************************************)
\* C35: after the adapter's push sequence for a value and its pop sequence
\* for the type of the value, which pops a payload only for an arm that
\* declares one, the stack is as deep as it was before the push, also for
\* result and variant arms without payload.
C35_StackNeutral ==
  (phase = "popped" /\ out.panic = NoPanic) => Depth(cx) = Len(base)

\* the state the counterexample of C35 ends in: the ok arm of result<_, string>
\* was popped and the undefined pushed for its payload is left on the stack
C35_Leftover ==
  /\ phase = "popped"
  /\ ty = ResultOf(NoType, Scalar("string"))
  /\ val = [err |-> FALSE, val |-> <<>>]
  /\ out.panic = NoPanic
  /\ out.ret = val
  /\ cx.stack = Append(base, Undefined)

\* the init calls whose evaluation failed
FailedInits ==
  {i \in 1..Len(initResults) :
     \E js \in Sources : EvalFails(js) /\ initResults[i] = Err(EvalFailed(js))}

\* C36: the evaluated flag is set by the swap before the evaluation and is
\* never cleared: after an init call whose evaluation fails the flag stays
\* true, neither reset has run, and every later init call returns the
\* already-evaluated error without evaluating.
C36_FailedInitSticks ==
  /\ [][JS_EVALUATED => JS_EVALUATED']_vars
  /\ [](\A i \in FailedInits :
          /\ JS_EVALUATED
          /\ \A k \in 1..Len(initLog) : \A r \in 1..Len(Resets) : initLog[k] # Resets[r]
          /\ evalCount = 1
          /\ \A j \in (i + 1)..Len(initResults) : initResults[j] = Err(AlreadyEvaluated))

C36_Witness ==
  /\ initCalls = 3
  /\ 1 \in FailedInits
  /\ initResults[2] = Err(AlreadyEvaluated)
  /\ initResults[3] = Err(AlreadyEvaluated)
  /\ initLog = <<Evaluated("throws")>>
  /\ JS_EVALUATED

\* the step of componentize in which stub_wasi_imports returns a component
StubReturns == stage = "snapshotted" /\ stage' = "stubbed"

\* C37: stub_wasi_imports is idempotent: applied to the component it returned
\* it finds no wasi: import and returns that component, the same bytes,
\* building neither a stub nor a composition.
C37_StubIdempotent ==
  [][StubReturns =>
       /\ stub_wasi_imports(component).result = BuildOk(component')
       /\ stub_wasi_imports(component') =
            [result |-> BuildOk(component'), stubBuilt |-> FALSE, composed |-> FALSE]]_vars

C37_Witness ==
  /\ stage = "stubbed"
  /\ built.composed
  /\ Cardinality(wasi_imports(Component("component", opts.imports))) = 2
  /\ component.imports # {}
  /\ stub_wasi_imports(component).result.component = component

\* the imports of a world that stub_wasi_imports does not select
other_imports(world) == world.imports \ wasi_imports(world)

\* C38: stub_wasi_imports changes only the WASI imports: every import whose
\* name does not start with "wasi:" is an import of the output, the stub
\* component exports exactly the wasi: imports and imports nothing, and the
\* exports of the output are the exports of the input.
C38_StubFrame ==
  [][StubReturns =>
       /\ other_imports(component) \subseteq component'.imports
       /\ component'.exports = component.exports
       /\ LET stub == make_stub_component(component, wasi_imports(component))
          IN /\ stub.exports =
                  {key \in component.imports : starts_with(key, WasiPrefix)}
             /\ stub.imports = {}]_vars

C38_Witness ==
  /\ stage = "stubbed"
  /\ built.stubBuilt
  /\ opts.imports = ImportNames
  /\ component.imports = other_imports(Component("component", ImportNames))
  /\ Cardinality(component.imports) = 4
  /\ component.exports = ExportNames

\* the property key a value is converted to when it is used as an index
PropertyKey(v) ==
  IF v.k = "num" THEN IndexKey(v.n)
  ELSE IF v.k = "str" THEN v.s
  ELSE <<"u", "n", "d", "e", "f", "i", "n", "e", "d">>

\* enumObj[enumObj[key]]
Twice(E, key) == GetProp(JsObj(E), PropertyKey(GetProp(JsObj(E), key)))

\* C39: on every enum object the two bindings are inverse to each other: for
\* every name key K, enumObj[enumObj[K]] is K, and for every index i of a
\* declared case, enumObj[enumObj[i]] is i, also for names of several words.
C39_EnumInverse ==
  Registered =>
    \A e \in RegisteredEnums(Worlds[WIT]) :
      LET E == EnumOnGlobals(e)
      IN /\ \A K \in NameKeys(E) : Twice(E, K) = JsStr(K)
         /\ \A i \in 0..(Len(e.names) - 1) : Twice(E, IndexKey(i)) = JsNum(i)

\* the state the counterexample of C39 ends in: the index of red-blue is bound
\* to the WIT name, which is not a key of the enum object
C39_KebabBack ==
  /\ Registered
  /\ \E e \in RegisteredEnums(Worlds[WIT]) :
       LET E == EnumOnGlobals(e)
       IN /\ Has(E, <<"R", "e", "d", "B", "l", "u", "e">>, JsNum(1))
          /\ Twice(E, <<"R", "e", "d", "B", "l", "u", "e">>)
               = JsStr(<<"r", "e", "d", "-", "b", "l", "u", "e">>)
          /\ Twice(E, IndexKey(1)) = Undefined

\* what does hold of the two bindings: the index entry carries the WIT name,
\* whose upper-camel-case form is the name key of the same index
EnumBackByWitName ==
  Registered =>
    \A e \in RegisteredEnums(Worlds[WIT]) :
      LET E == EnumOnGlobals(e)
      IN \A i \in 1..Len(e.names) :
           /\ Twice(E, to_upper_camel_case(e.names[i])) = JsStr(KebabString(e.names[i]))
           /\ E[to_upper_camel_case(e.names[i])] = JsNum(i - 1)

\* the step in which initialize registers the imports of the stored world
RegistersImports == registerCount' = registerCount + 1

\* the global object register_imports leaves when the map yields this order
RegisteredIn(g, w, order) == register_imports(g, w, order, 1)

\* C40: import registration is deterministic: the global keys and the object
\* each key is bound to after initialize depend only on the WIT world, not on
\* the order in which the interface map is iterated, also when two interfaces
\* share the bare name and differ in the version.
C40_RegistrationDeterministic ==
  [][RegistersImports =>
       \A order \in Orders(InterfaceNames(Worlds[WIT'])) :
         globals' = RegisteredIn(globals, Worlds[WIT'], order)]_vars

\* the state the counterexample of C40 ends in: the world is registered and
\* another iteration order binds the bare key to another object
C40_OrderDecides ==
  /\ Registered
  /\ registerCount = 1
  /\ \E a, b \in Orders(InterfaceNames(Worlds[WIT])) :
       LET ga == RegisteredIn(EmptyObject, Worlds[WIT], a)
           gb == RegisteredIn(EmptyObject, Worlds[WIT], b)
       IN /\ DOMAIN ga = DOMAIN gb
          /\ \E key \in DOMAIN ga : ga[key] # gb[key] /\ globals[key] = ga[key]

\* worlds in which no two interfaces share a bare name
OneVersionEach(w) ==
  \A a, b \in QualifiedNames(w) : BareKey(a) = BareKey(b) => a = b

\* with at most one version of every interface the order does not matter
DeterministicOneVersion ==
  [][(RegistersImports /\ OneVersionEach(Worlds[WIT'])) =>
       \A order \in Orders(InterfaceNames(Worlds[WIT'])) :
         globals' = RegisteredIn(globals, Worlds[WIT'], order)]_vars

====
